---- MODULE Spec2Model ----
(***************************************************************************)
(* Multi-exchange trading abstraction layer of OpenNof1: Symbol &          *)
(* Parameter Mapper, Credential validation, Rate Limiter, Exchange         *)
(* Adapter and Exchange Trader Factory.                                    *)
(*                                                                         *)
(* Quantities are fixed-point integers in units of 10^-QtyScale of the     *)
(* base asset; prices are whole quote units (USD); a notional is therefore *)
(* expressed in units of 10^-QtyScale USD.  A price of 0 stands for        *)
(* Python's None (both are falsy in `if price:`).                          *)
(*                                                                         *)
(* The web frontend is modelled beside it: the Next.js middleware that     *)
(* guards the control operations, the custom prompts API, the API client   *)
(* of the dashboard and the TradingDashboard component.                    *)
(***************************************************************************)
EXTENDS Integers, Sequences, FiniteSets, TLC

VARIABLES
    environment,   \* load_exchange_config(environment=...)
    creds,         \* exchange -> credential bundle found in the credential source
    netState,      \* exchange -> "healthy" | "unreachable" | "auth_rejected"
    cache,         \* Factory: exchange name -> adapter instance id (0 = none)
    nameLock,      \* Factory: exchange name -> caller holding the construction lock (0 = free)
    constructed,   \* Factory: exchange name -> number of Adapters constructed so far
    firstGot,      \* exchange name -> instance returned by the first successful get (0 = none yet)
    adapterState,  \* exchange -> "Disconnected" | "Connected" | "Error"
    rate_states,   \* ExchangeRateLimiter.rate_states: bucket key -> RateLimitState
    locks,         \* ExchangeRateLimiter.locks: bucket key -> caller holding it (0 = free)
    lockObjects,   \* bucket key -> Lock objects created for it: 0, 1, or 2 for more than one
    now,           \* clock, in ticks
    admitLog,      \* bucket key -> [time -> number of calls admitted at that time]
    pc,            \* caller -> position in its current operation
    call,          \* caller -> the invocation it is executing
    outcome,       \* caller -> result of the invocation
    sent,          \* caller -> transport calls issued for the current invocation
    wire,          \* caller -> last request put on the wire for the current invocation
    mapRes,        \* result of the last direct ExchangeMapper.normalize_symbol call
    mainPc,        \* main(): index of the next enabled exchange to initialise
    traders,       \* main(): the traders dict
    allowControl,  \* process.env.ALLOW_CONTROL_OPERATIONS
    request,       \* middleware: the last request (pathname, method)
    response,      \* middleware: what became of that request
    custom_prompts, \* table custom_prompts: id -> row
    tx,            \* client -> its open activation transaction
    apiCall,       \* API client: the last call, the server's reply and how the promise settled
    accountData,   \* TradingDashboard state: useState<AccountValue[]>([])
    decisions,     \* useState<Decision[]>([]), as the sequence of the decisions' ids
    positions,     \* useState<Position[]>([])
    stats,         \* useState<TradeStats | null>(null)
    loading,       \* useState(true)
    error,         \* useState<string | null>(null)
    isOffline,     \* useState(false)
    hasMoreDecisions,        \* useState(true)
    isLoadingMoreDecisions,  \* useState(false)
    rendered,      \* what the last render showed
    initialLoad,   \* loadData(true): "idle" | "pending" | "done"
    refreshes,     \* loadData(false) calls awaiting their fetches
    loadMores,     \* handleLoadMoreDecisions calls awaiting their fetch
    settled        \* the dashboard request that settled last

vars == <<environment, creds, netState, cache, nameLock, constructed, firstGot,
          adapterState, rate_states, locks, lockObjects, now, admitLog, pc, call, outcome,
          sent, wire, mapRes, mainPc, traders, allowControl, request, response,
          custom_prompts, tx, apiCall, accountData, decisions, positions, stats, loading,
          error, isOffline, hasMoreDecisions, isLoadingMoreDecisions, rendered,
          initialLoad, refreshes, loadMores, settled>>

cfgVars == <<environment, creds, netState>>
factoryVars == <<cache, nameLock, constructed, firstGot>>
limiterVars == <<rate_states, locks, lockObjects, admitLog>>
callerVars == <<pc, call, outcome, sent, wire>>
mainVars == <<mainPc, traders>>
middlewareVars == <<allowControl, request, response>>
promptVars == <<custom_prompts, tx>>
dashVars == <<accountData, decisions, positions, stats, loading, error, isOffline,
              hasMoreDecisions, isLoadingMoreDecisions, rendered, initialLoad, refreshes,
              loadMores, settled>>
clientVars == <<apiCall, dashVars>>
webVars == <<middlewareVars, promptVars, clientVars>>
backendVars == <<cfgVars, factoryVars, adapterState, limiterVars, now, callerVars,
                 mapRes, mainVars>>

----------------------------------------------------------------------------
(* Bounds of the model *)

NumCallers == 2
MaxTime == 3
IntervalTicks == 2
BaseRate == 1
WaitCeiling == 1
MaxSlashes == 2
MaxPrompts == 3
MaxIds == 3
DECISIONS_PAGE_SIZE == 2
MaxRefreshes == 1
MaxLoadMore == 2

(* Fixed-point scale of quantities: the largest quantity_precision configured *)
QtyScale == 8

Callers == 1..NumCallers
Times == 0..MaxTime

----------------------------------------------------------------------------
(* Configuration (exchanges.yaml) *)

Exchanges == {"binance_futures", "hyperliquid"}
ExchangeNames == Exchanges \cup {"unknown_exchange"}
Environments == {"production", "development", "testing"}

Symbols == {"BTC/USDT", "ETH/USDT", "DOGE/USDT"}

EmptyMap == [x \in {} |-> x]

(* global_settings.symbol_mapping *)
symbol_mappings ==
    [binance_futures |-> ("BTC/USDT" :> "BTCUSDT") @@ ("ETH/USDT" :> "ETHUSDT")
                          @@ ("SOL/USDT" :> "SOLUSDT"),
     hyperliquid     |-> ("BTC/USDT" :> "BTC") @@ ("ETH/USDT" :> "ETH")
                          @@ ("SOL/USDT" :> "SOL")]

(* exchanges.<name>.enabled, with the environment override applied *)
ExchangeEnabled(name) ==
    IF name = "hyperliquid" /\ environment = "development" THEN FALSE ELSE TRUE

(* The per_symbol table keyed by canonical symbols: the Adapter's lookup by  *)
(* native symbol then misses every entry.                                   *)
leverage_per_symbol_canonical ==
    [binance_futures |-> ("BTC/USDT" :> 10) @@ ("ETH/USDT" :> 15),
     hyperliquid     |-> ("BTC/USDT" :> 20) @@ ("ETH/USDT" :> 25)]

(* exchanges.<name>.trading.leverage.per_symbol, keyed by native symbol *)
leverage_per_symbol ==
    [binance_futures |-> ("BTCUSDT" :> 10) @@ ("ETHUSDT" :> 15),
     hyperliquid     |-> ("BTC" :> 20) @@ ("ETH" :> 25)]

(* exchanges.<name>.trading.leverage.maximum, with the environment override *)
leverage_maximum(exchange) ==
    IF exchange = "binance_futures"
    THEN (IF environment = "development" THEN 5 ELSE 20)
    ELSE 50

(* retries read as the number of repetitions after the first attempt *)
retries_after_first(exchange) == 3 + 1

(* exchanges.<name>.network.rest_api.retries *)
retries(exchange) == 3

RECURSIVE Pow10(_)
Pow10(n) == IF n = 0 THEN 1 ELSE 10 * Pow10(n - 1)

(* exchanges.<name>.trading.position_sizing as an ExchangeLimits record;     *)
(* min_notional in units of 10^-QtyScale USD, step_size in quantity units.   *)
exchange_limits ==
    [binance_futures |-> [min_notional |-> 5 * Pow10(QtyScale),
                          quantity_precision |-> 8,
                          min_quantity |-> Pow10(QtyScale - 8),
                          max_quantity |-> Pow10(QtyScale),
                          step_size |-> Pow10(QtyScale - 8)],
     hyperliquid     |-> [min_notional |-> 1 * Pow10(QtyScale),
                          quantity_precision |-> 6,
                          min_quantity |-> Pow10(QtyScale - 6),
                          max_quantity |-> Pow10(QtyScale),
                          step_size |-> Pow10(QtyScale - 6)]]

(* Mark price of each symbol on the exchange side, in USD *)
CurrentPrice(symbol) ==
    CASE symbol = "BTC/USDT" -> 50000
      [] symbol = "ETH/USDT" -> 3000
      [] symbol = "SOL/USDT" -> 150
      [] OTHER -> 1

----------------------------------------------------------------------------
(* ExchangeMapper *)

(* self.symbol_mappings is state of the ExchangeMapper object: mapRes.table, *)
(* set by _init_symbol_mappings to the configured symbol_mapping.            *)

(* Insertion order of the keys of a mapping dict *)
SymbolOrder == <<"BTC/USDT", "ETH/USDT", "SOL/USDT", "BTCUSDT">>

normalize_symbol(internal_symbol, exchange) ==
    LET mapping == IF exchange \in DOMAIN mapRes.table
                   THEN mapRes.table[exchange] ELSE EmptyMap
    IN  IF internal_symbol \in DOMAIN mapping THEN mapping[internal_symbol]
        ELSE internal_symbol

(* denormalize_symbol without the reverse lookup *)
denormalize_symbol_passthrough(exchange_symbol, exchange) == exchange_symbol

(* Reverse lookup: the first item of the dict, in insertion order, whose     *)
(* value is the exchange symbol.                                             *)
denormalize_symbol(exchange_symbol, exchange) ==
    LET mapping == IF exchange \in DOMAIN mapRes.table
                   THEN mapRes.table[exchange] ELSE EmptyMap
        hits == {i \in 1..Len(SymbolOrder) :
                    /\ SymbolOrder[i] \in DOMAIN mapping
                    /\ mapping[SymbolOrder[i]] = exchange_symbol}
    IN  IF hits # {} THEN SymbolOrder[CHOOSE i \in hits : \A j \in hits : i <= j]
        ELSE exchange_symbol

get_symbol_limits(symbol, exchange) ==
    IF exchange \in DOMAIN exchange_limits
    THEN [found |-> TRUE, limits |-> exchange_limits[exchange]]
    ELSE [found |-> FALSE, limits |-> exchange_limits["binance_futures"]]

validate_order_params(symbol, exchange, quantity, price) ==
    LET r == get_symbol_limits(symbol, exchange)
        limits == r.limits
    IN  IF ~r.found THEN [ok |-> FALSE, msg |-> "No trading limits found"]
        ELSE IF quantity < limits.min_quantity
             THEN [ok |-> FALSE, msg |-> "Quantity below minimum"]
        ELSE IF quantity > limits.max_quantity
             THEN [ok |-> FALSE, msg |-> "Quantity above maximum"]
        ELSE IF price # 0 /\ quantity * price < limits.min_notional
             THEN [ok |-> FALSE, msg |-> "Notional value below minimum"]
        ELSE [ok |-> TRUE, msg |-> "Order parameters valid"]

----------------------------------------------------------------------------
(* CredentialManager: a credential string is abstracted to its length and  *)
(* whether it starts with "0x"; a missing or empty one has length 0.        *)

Str(n, p) == [len |-> n, hex |-> p]

Falsy(bundle, key) == key \notin DOMAIN bundle \/ bundle[key].len = 0

_validate_binance_credentials(bundle) ==
    IF \E key \in {"api_key", "api_secret"} : Falsy(bundle, key) THEN FALSE
    ELSE IF bundle["api_key"].len # 64 THEN FALSE
    ELSE IF bundle["api_secret"].len # 64 THEN FALSE
    ELSE TRUE

(* the main_wallet format check is left out *)
_validate_hyperliquid_credentials_two_checks(bundle) ==
    IF \E key \in {"wallet_address", "private_key", "main_wallet"} : Falsy(bundle, key)
    THEN FALSE
    ELSE IF ~(bundle["wallet_address"].hex /\ bundle["wallet_address"].len = 42) THEN FALSE
    ELSE IF ~(bundle["private_key"].hex /\ bundle["private_key"].len = 66) THEN FALSE
    ELSE TRUE

_validate_hyperliquid_credentials(bundle) ==
    IF \E key \in {"wallet_address", "private_key", "main_wallet"} : Falsy(bundle, key)
    THEN FALSE
    ELSE IF ~(bundle["wallet_address"].hex /\ bundle["wallet_address"].len = 42) THEN FALSE
    ELSE IF ~(bundle["main_wallet"].hex /\ bundle["main_wallet"].len = 42) THEN FALSE
    ELSE IF ~(bundle["private_key"].hex /\ bundle["private_key"].len = 66) THEN FALSE
    ELSE TRUE

validate_credentials(exchange_name, bundle) ==
    IF exchange_name = "binance_futures" THEN _validate_binance_credentials(bundle)
    ELSE IF exchange_name = "hyperliquid" THEN _validate_hyperliquid_credentials(bundle)
    ELSE FALSE

(* Credential bundles the credential source may hold *)
BinanceBundles ==
    { ("api_key" :> Str(64, FALSE)) @@ ("api_secret" :> Str(64, FALSE)),
      ("api_key" :> Str(63, FALSE)) @@ ("api_secret" :> Str(64, FALSE)),
      ("api_key" :> Str(64, FALSE)) @@ ("api_secret" :> Str(0, FALSE)) }

HyperliquidBundles ==
    { ("wallet_address" :> Str(42, TRUE)) @@ ("private_key" :> Str(66, TRUE))
          @@ ("main_wallet" :> Str(42, TRUE)),
      ("wallet_address" :> Str(42, FALSE)) @@ ("private_key" :> Str(66, TRUE))
          @@ ("main_wallet" :> Str(42, TRUE)),
      ("wallet_address" :> Str(42, TRUE)) @@ ("private_key" :> Str(64, TRUE))
          @@ ("main_wallet" :> Str(42, TRUE)),
      ("wallet_address" :> Str(42, TRUE)) @@ ("private_key" :> Str(66, TRUE))
          @@ ("main_wallet" :> Str(0, FALSE)) }

GoodBundles ==
    [binance_futures |-> ("api_key" :> Str(64, FALSE)) @@ ("api_secret" :> Str(64, FALSE)),
     hyperliquid     |-> ("wallet_address" :> Str(42, TRUE)) @@ ("private_key" :> Str(66, TRUE))
                          @@ ("main_wallet" :> Str(42, TRUE))]

----------------------------------------------------------------------------
(* MultiExchangeConfig *)

(* Every configured exchange, the enabled flag ignored *)
all_exchanges == Exchanges

get_enabled_exchanges == {name \in Exchanges : ExchangeEnabled(name)}

(* priority: 1 for binance_futures, 2 for hyperliquid; dict order follows it *)
EnabledInOrder ==
    SelectSeq(<<"binance_futures", "hyperliquid">>,
              LAMBDA name : name \in get_enabled_exchanges)

----------------------------------------------------------------------------
(* ExchangeRateLimiter *)

EndpointClasses == {"orders", "requests"}
Keys == Exchanges \X EndpointClasses

(* RateLimitRule of a bucket: exchanges.<name>.rate_limits, scaled down to   *)
(* BaseRate so that a bucket can be exhausted within the model's bounds.     *)
(* binance_futures is allowed more than hyperliquid, requests more than      *)
(* orders, and only orders carry a burst allowance, as in the configuration. *)
RateLimitRule(key) ==
    [requests_per_interval |->
         BaseRate + (IF key[1] = "binance_futures" THEN 1 ELSE 0)
                  + (IF key[2] = "requests" THEN 2 ELSE 0),
     interval_seconds |-> IntervalTicks,
     burst_allowance |-> IF key[2] = "orders" THEN 1 ELSE 0]

(* RateLimitState() *)
NewRateLimitState == [requests |-> <<>>, last_request |-> 0, burst_used |-> 0]

(* The deque without the entries that left the interval ending at t *)
Pruned(requests, key, t) ==
    SelectSeq(requests, LAMBDA r : r > t - RateLimitRule(key).interval_seconds)

HasCapacity(key, requests) ==
    LET rule == RateLimitRule(key)
    IN  Len(requests) < rule.requests_per_interval + rule.burst_allowance

(* acquire without `async with self.locks[key]` *)
LockIgnored(key, c) == TRUE

(* asyncio.Lock of the key: free, or held by the caller itself *)
LockFree(key, c) == locks[key] = 0

----------------------------------------------------------------------------
(* Callers and their invocations *)

TradingOps == {"open_long", "open_short", "close_long", "close_short"}
OpenOps == {"open_long", "open_short"}
ReadOps == {"get_balance", "get_positions"}

Quantities == {10, 10000, 33350}
Leverages == {1, 11, 51}

NoCall ==
    [op |-> "none", exchange |-> "none", endpoint |-> "none", symbol |-> "none",
     quantity |-> 0, leverage |-> 0, price |-> 0, native |-> "none", fq |-> 0,
     t0 |-> 0, instance |-> 0, admitted |-> 0, status |-> "none", executed |-> 0,
     error |-> "none", valid |-> FALSE, via |-> "none"]

NoWire == [symbol |-> "none", quantity |-> 0]

(* key = endpoint_type alone: the buckets of all exchanges coincide *)
KeyByEndpointOnly(c) == <<"binance_futures", call[c].endpoint>>

Key(c) == <<call[c].exchange, call[c].endpoint>>

----------------------------------------------------------------------------
(* Exchange Trader Factory: get(exchange_name) / create_trader(exchange_name) *)

(* get without the per-name construction lock *)
NameLockIgnored(name) == TRUE

(* The per-name construction lock is free *)
NameLockFree(name) == nameLock[name] = 0

(* get without the cache lookup *)
CacheMiss(name) == 0

(* The Adapter cached under the name (0 = none) *)
CachedInstance(name) == cache[name]

NoteFirst(name, instance) ==
    firstGot' = [firstGot EXCEPT ![name] = IF @ = 0 THEN instance ELSE @]

Finish(c, result, instance) ==
    /\ pc' = [pc EXCEPT ![c] = "done"]
    /\ outcome' = [outcome EXCEPT ![c] = result]
    /\ call' = [call EXCEPT ![c].instance = instance]

(* Entry of get: the cached instance, a ConfigurationError for a name that  *)
(* is not an enabled exchange, or on to the construction lock.              *)
GetNamed(c, name, via) ==
    /\ pc[c] = "idle"
    /\ sent' = [sent EXCEPT ![c] = 0]
    /\ wire' = [wire EXCEPT ![c] = NoWire]
    /\ IF CachedInstance(name) # 0
       THEN /\ pc' = [pc EXCEPT ![c] = "done"]
            /\ outcome' = [outcome EXCEPT ![c] = "ok"]
            /\ call' = [call EXCEPT ![c] = [NoCall EXCEPT !.op = "get", !.exchange = name,
                                                          !.via = via,
                                                          !.instance = CachedInstance(name)]]
            /\ NoteFirst(name, CachedInstance(name))
       ELSE /\ call' = [call EXCEPT ![c] = [NoCall EXCEPT !.op = "get", !.exchange = name,
                                                          !.via = via]]
            /\ UNCHANGED firstGot
            /\ IF name \notin get_enabled_exchanges
               THEN /\ pc' = [pc EXCEPT ![c] = "done"]
                    /\ outcome' = [outcome EXCEPT ![c] = "ConfigurationError"]
               ELSE /\ pc' = [pc EXCEPT ![c] = "get_lock"]
                    /\ outcome' = [outcome EXCEPT ![c] = "pending"]
    /\ UNCHANGED <<webVars, cfgVars, cache, nameLock, constructed, adapterState, limiterVars,
                   now, mapRes, mainVars>>

(* get_exchange_trader(name) *)
FactoryGet(c, name) == GetNamed(c, name, "name")

(* the default is taken to be the last exchange of the configuration *)
last_configured_exchange == "hyperliquid"

(* config.exchange.name: the configured default exchange *)
config_exchange_name == "binance_futures"

(* get_exchange_trader() with the name omitted: the configured default *)
FactoryGetDefault(c) == GetNamed(c, config_exchange_name, "default")

(* The legacy accessor get_trader(): get with the configured default name *)
get_trader(c) == GetNamed(c, config_exchange_name, "legacy")

FactoryLock(c) ==
    /\ pc[c] = "get_lock"
    /\ NameLockFree(call[c].exchange)
    /\ nameLock' = [nameLock EXCEPT ![call[c].exchange] = c]
    /\ pc' = [pc EXCEPT ![c] = "get_resolve"]
    /\ UNCHANGED <<webVars, cfgVars, cache, constructed, firstGot, adapterState, limiterVars,
                   now, call, outcome, sent, wire, mapRes, mainVars>>

(* Under the lock: the cache is looked at again, then the credentials are   *)
(* read from their source and validated structurally.                       *)
FactoryResolve(c) ==
    LET name == call[c].exchange
    IN  /\ pc[c] = "get_resolve"
        /\ IF CachedInstance(name) # 0
           THEN /\ Finish(c, "ok", CachedInstance(name))
                /\ NoteFirst(name, CachedInstance(name))
                /\ nameLock' = [nameLock EXCEPT ![name] = IF @ = c THEN 0 ELSE @]
           ELSE IF ~validate_credentials(name, creds[name])
           THEN /\ Finish(c, "ConfigurationError", 0)
                /\ UNCHANGED firstGot
                /\ nameLock' = [nameLock EXCEPT ![name] = IF @ = c THEN 0 ELSE @]
           ELSE /\ pc' = [pc EXCEPT ![c] = "get_construct"]
                /\ UNCHANGED <<outcome, call, firstGot, nameLock>>
        /\ UNCHANGED <<webVars, cfgVars, cache, constructed, adapterState, limiterVars,
                       now, sent, wire, mapRes, mainVars>>

FactoryConstruct(c) ==
    LET name == call[c].exchange
        instance == constructed[name] + 1
    IN  /\ pc[c] = "get_construct"
        /\ constructed' = [constructed EXCEPT ![name] = instance]
        /\ cache' = [cache EXCEPT ![name] = instance]
        /\ adapterState' = [adapterState EXCEPT ![name] = "Disconnected"]
        /\ nameLock' = [nameLock EXCEPT ![name] = IF @ = c THEN 0 ELSE @]
        /\ Finish(c, "ok", instance)
        /\ NoteFirst(name, instance)
        /\ UNCHANGED <<webVars, cfgVars, limiterVars, now, sent, wire, mapRes, mainVars>>

(* The caller has its result and may issue its next call *)
Return(c) ==
    /\ pc[c] = "done"
    /\ pc' = [pc EXCEPT ![c] = "idle"]
    /\ call' = [call EXCEPT ![c] = NoCall]
    /\ outcome' = [outcome EXCEPT ![c] = "none"]
    /\ sent' = [sent EXCEPT ![c] = 0]
    /\ wire' = [wire EXCEPT ![c] = NoWire]
    /\ UNCHANGED <<webVars, cfgVars, factoryVars, adapterState, limiterVars, now, mapRes, mainVars>>

----------------------------------------------------------------------------
(* main(): initialise a trader for every enabled exchange *)

(* main() without the try/except: the exception ends the loop *)
MainAbort(i) == Len(EnabledInOrder) + 1

(* Index main's loop continues with after create_trader raised at index i:   *)
(* the except clause prints and the loop goes on with the next exchange.     *)
MainAfterFailure(i) == i + 1

MainStep ==
    /\ mainPc <= Len(EnabledInOrder)
    /\ LET name == EnabledInOrder[mainPc]
           instance == constructed[name] + 1
       IN  /\ NameLockFree(name)
           /\ IF CachedInstance(name) # 0
              THEN /\ traders' = [traders EXCEPT ![name] = CachedInstance(name)]
                   /\ mainPc' = mainPc + 1
                   /\ NoteFirst(name, CachedInstance(name))
                   /\ UNCHANGED <<cache, constructed, adapterState>>
              ELSE IF validate_credentials(name, creds[name])
              THEN /\ constructed' = [constructed EXCEPT ![name] = instance]
                   /\ cache' = [cache EXCEPT ![name] = instance]
                   /\ adapterState' = [adapterState EXCEPT ![name] = "Disconnected"]
                   /\ traders' = [traders EXCEPT ![name] = instance]
                   /\ mainPc' = mainPc + 1
                   /\ NoteFirst(name, instance)
              ELSE /\ mainPc' = MainAfterFailure(mainPc)
                   /\ UNCHANGED <<cache, constructed, adapterState, traders, firstGot>>
    /\ UNCHANGED <<webVars, cfgVars, nameLock, limiterVars, now, callerVars, mapRes>>

----------------------------------------------------------------------------
(* Exchange Adapter: the ExchangeTrader contract *)

(* format_quantity: truncation to the exchange's quantity precision *)
format_quantity(exchange, quantity) ==
    LET step == exchange_limits[exchange].step_size
    IN  (quantity \div step) * step

(* Configured leverage ceiling of a native symbol *)
max_leverage(exchange, native) ==
    IF native \in DOMAIN leverage_per_symbol[exchange]
    THEN leverage_per_symbol[exchange][native]
    ELSE leverage_maximum(exchange)

(* The local checks of a trading operation, made before anything is sent:   *)
(* normalize_symbol has no failing branch, so nothing here can report an     *)
(* unsupported symbol; a market order carries no price (price = 0).          *)
LocalCheck(op, exchange, symbol, quantity, leverage, price) ==
    LET native == normalize_symbol(symbol, exchange)
        fq == format_quantity(exchange, quantity)
        v == validate_order_params(symbol, exchange, fq, price)
    IN  [native |-> native, fq |-> fq,
         error |-> IF op \in OpenOps /\ leverage > max_leverage(exchange, native)
                   THEN "RiskLimitExceededError"
                   ELSE IF ~v.ok THEN "InvalidOrderParametersError"
                   ELSE "none"]

(* round_quantity: the quantity truncated to the exchange's precision, or    *)
(* the error of validate_order_params on it.  The price is the current price *)
(* when the caller has one and 0 when it has none.                           *)
round_quantity(symbol, exchange, raw_quantity, price) ==
    LET fq == format_quantity(exchange, raw_quantity)
        v == validate_order_params(symbol, exchange, fq, price)
    IN  [value |-> fq,
         error |-> IF v.ok THEN "none" ELSE "InvalidOrderParametersError"]

(* A direct call of round_quantity *)
RoundQuantityCall(c, symbol, exchange, raw_quantity, price) ==
    /\ pc[c] = "idle"
    /\ LET r == round_quantity(symbol, exchange, raw_quantity, price)
       IN  /\ call' = [call EXCEPT ![c] =
                          [NoCall EXCEPT !.op = "round_quantity", !.exchange = exchange,
                                         !.symbol = symbol, !.quantity = raw_quantity,
                                         !.price = price,
                                         !.fq = IF r.error = "none" THEN r.value ELSE 0]]
           /\ outcome' = [outcome EXCEPT ![c] = IF r.error = "none" THEN "ok" ELSE r.error]
    /\ pc' = [pc EXCEPT ![c] = "done"]
    /\ sent' = [sent EXCEPT ![c] = 0]
    /\ wire' = [wire EXCEPT ![c] = NoWire]
    /\ UNCHANGED <<webVars, cfgVars, factoryVars, adapterState, limiterVars, now, mapRes, mainVars>>

TradeCall(c, op, exchange, symbol, quantity, leverage, price) ==
    /\ pc[c] = "idle"
    /\ cache[exchange] # 0
    /\ op \notin OpenOps => leverage = 1
    /\ LET r == LocalCheck(op, exchange, symbol, quantity, leverage, price)
       IN  /\ call' = [call EXCEPT ![c] =
                          [op |-> op, exchange |-> exchange, endpoint |-> "orders",
                           symbol |-> symbol, quantity |-> quantity,
                           leverage |-> leverage, price |-> price,
                           native |-> r.native, fq |-> r.fq, t0 |-> now,
                           instance |-> cache[exchange], admitted |-> 0,
                           status |-> "none", executed |-> 0,
                           error |-> "none", valid |-> FALSE, via |-> "none"]]
           /\ outcome' = [outcome EXCEPT ![c] = IF r.error = "none" THEN "pending" ELSE r.error]
           /\ pc' = [pc EXCEPT ![c] = IF r.error = "none" THEN "acquire" ELSE "done"]
    /\ sent' = [sent EXCEPT ![c] = 0]
    /\ wire' = [wire EXCEPT ![c] = NoWire]
    /\ UNCHANGED <<webVars, cfgVars, factoryVars, adapterState, limiterVars, now, mapRes, mainVars>>

ReadCall(c, op, exchange) ==
    /\ pc[c] = "idle"
    /\ cache[exchange] # 0
    /\ call' = [call EXCEPT ![c] = [NoCall EXCEPT !.op = op, !.exchange = exchange,
                                                  !.endpoint = "requests", !.t0 = now,
                                                  !.instance = cache[exchange]]]
    /\ outcome' = [outcome EXCEPT ![c] = "pending"]
    /\ pc' = [pc EXCEPT ![c] = "acquire"]
    /\ sent' = [sent EXCEPT ![c] = 0]
    /\ wire' = [wire EXCEPT ![c] = NoWire]
    /\ UNCHANGED <<webVars, cfgVars, factoryVars, adapterState, limiterVars, now, mapRes, mainVars>>

(* The lock stays with its holder when the block is left by an exception *)
HeldAfterExit(holder, c) == holder

(* Leaving the `async with self.locks[key]` block, by return or by an        *)
(* exception: the holder releases the lock.                                  *)
ReleasedOnExit(holder, c) == IF holder = c THEN 0 ELSE holder

(* Credential resolution for an exchange name: the stored bundle is         *)
(* validated and returned, or ConfigurationError is raised; nothing is sent. *)
ResolveCall(c, name) ==
    LET bundle == IF name \in DOMAIN creds THEN creds[name] ELSE EmptyMap
        ok == validate_credentials(name, bundle)
    IN  /\ pc[c] = "idle"
        /\ call' = [call EXCEPT ![c] =
                       [NoCall EXCEPT !.op = "resolve", !.exchange = name, !.valid = ok]]
        /\ outcome' = [outcome EXCEPT ![c] = IF ok THEN "ok" ELSE "ConfigurationError"]
        /\ pc' = [pc EXCEPT ![c] = "done"]
        /\ sent' = [sent EXCEPT ![c] = 0]
        /\ wire' = [wire EXCEPT ![c] = NoWire]
        /\ UNCHANGED <<webVars, cfgVars, factoryVars, adapterState, limiterVars, now, mapRes, mainVars>>

(* validate_symbol answers by normalize_symbol, which always returns a string *)
validate_symbol_by_normalize(symbol, exchange) == normalize_symbol(symbol, exchange) # "none"

(* validate_symbol: whether the Adapter's exchange has a mapping entry for  *)
(* the symbol; a look-up in the table, nothing is sent.                      *)
validate_symbol(symbol, exchange) ==
    /\ exchange \in DOMAIN mapRes.table
    /\ symbol \in DOMAIN mapRes.table[exchange]

ValidateSymbolCall(c, exchange, symbol) ==
    /\ pc[c] = "idle"
    /\ cache[exchange] # 0
    /\ call' = [call EXCEPT ![c] =
                   [NoCall EXCEPT !.op = "validate_symbol", !.exchange = exchange,
                                  !.symbol = symbol, !.instance = cache[exchange],
                                  !.valid = validate_symbol(symbol, exchange)]]
    /\ outcome' = [outcome EXCEPT ![c] = "ok"]
    /\ pc' = [pc EXCEPT ![c] = "done"]
    /\ sent' = [sent EXCEPT ![c] = 0]
    /\ wire' = [wire EXCEPT ![c] = NoWire]
    /\ UNCHANGED <<webVars, cfgVars, factoryVars, adapterState, limiterVars, now, mapRes, mainVars>>

(* no failure is caught inside the operation *)
CaughtNever(op, result) == FALSE

(* health_check catches every failure of its probe *)
Caught(op, result) == op = "health_check" /\ result # "ok"

(* What the caller sees of a result: an error is raised unless caught *)
Surfaced(op, result) == IF Caught(op, result) THEN "ok" ELSE result

(* health_check's classification of the probe's result *)
HealthStatus(result) ==
    CASE result = "ok" -> "healthy"
      [] result = "ConnectionError" -> "unreachable"
      [] OTHER -> "degraded"

(* The status record of health_check, with the error when there is one *)
Noted(c, result) ==
    IF call[c].op = "health_check"
    THEN [call EXCEPT ![c].status = HealthStatus(result),
                      ![c].error = IF result = "ok" THEN "none" ELSE result]
    ELSE call

(* health_check: one probe request, through the rate limiter *)
HealthCheckCall(c, exchange) ==
    /\ pc[c] = "idle"
    /\ cache[exchange] # 0
    /\ call' = [call EXCEPT ![c] =
                   [NoCall EXCEPT !.op = "health_check", !.exchange = exchange,
                                  !.endpoint = "requests", !.t0 = now,
                                  !.instance = cache[exchange]]]
    /\ outcome' = [outcome EXCEPT ![c] = "pending"]
    /\ pc' = [pc EXCEPT ![c] = "acquire"]
    /\ sent' = [sent EXCEPT ![c] = 0]
    /\ wire' = [wire EXCEPT ![c] = NoWire]
    /\ UNCHANGED <<webVars, cfgVars, factoryVars, adapterState, limiterVars, now, mapRes, mainVars>>

(* A direct call of ExchangeRateLimiter.acquire(exchange, endpoint_type) *)
AcquireCall(c, exchange, endpoint_type) ==
    /\ pc[c] = "idle"
    /\ call' = [call EXCEPT ![c] = [NoCall EXCEPT !.op = "acquire", !.exchange = exchange,
                                                  !.endpoint = endpoint_type, !.t0 = now]]
    /\ outcome' = [outcome EXCEPT ![c] = "pending"]
    /\ pc' = [pc EXCEPT ![c] = "acquire"]
    /\ sent' = [sent EXCEPT ![c] = 0]
    /\ wire' = [wire EXCEPT ![c] = NoWire]
    /\ UNCHANGED <<webVars, cfgVars, factoryVars, adapterState, limiterVars, now, mapRes, mainVars>>

(* a Lock is created at every call *)
LockMissingAlways(key) == TRUE

(* `if key not in self.locks` *)
LockMissing(key) == lockObjects[key] = 0

(* acquire: `if key not in self.locks: self.locks[key] = asyncio.Lock()`,   *)
(* one step without await, then `async with self.locks[key]`; a Lock just   *)
(* created is free.                                                          *)
AcquireEnter(c) ==
    /\ pc[c] = "acquire"
    /\ LockMissing(Key(c)) \/ LockFree(Key(c), c)
    /\ lockObjects' = [lockObjects EXCEPT ![Key(c)] =
                          IF LockMissing(Key(c)) THEN (IF @ = 0 THEN 1 ELSE 2) ELSE @]
    /\ locks' = [locks EXCEPT ![Key(c)] = c]
    /\ pc' = [pc EXCEPT ![c] = "check"]
    /\ UNCHANGED <<webVars, cfgVars, factoryVars, adapterState, rate_states, admitLog, now,
                   call, outcome, sent, wire, mapRes, mainVars>>

(* _check_rate_limit, first half: drop the expired entries and decide.  With *)
(* no capacity the coroutine sleeps (no step) until the clock moves or the   *)
(* wait ceiling is reached, and then fails with RateLimitError.              *)
CheckRateLimit(c) ==
    LET key == Key(c)
        live == Pruned(rate_states[key].requests, key, now)
    IN  /\ pc[c] = "check"
        /\ HasCapacity(key, live) \/ now - call[c].t0 >= WaitCeiling
        /\ rate_states' = [rate_states EXCEPT ![key].requests = live]
        /\ IF HasCapacity(key, live)
           THEN /\ pc' = [pc EXCEPT ![c] = "record"]
                /\ UNCHANGED <<outcome, locks, call>>
           ELSE /\ pc' = [pc EXCEPT ![c] = "done"]
                /\ outcome' = [outcome EXCEPT ![c] = Surfaced(call[c].op, "RateLimitError")]
                /\ call' = Noted(c, "RateLimitError")
                /\ locks' = [locks EXCEPT ![key] = ReleasedOnExit(@, c)]
        /\ UNCHANGED <<webVars, cfgVars, factoryVars, adapterState, admitLog, lockObjects,
                       now, sent, wire, mapRes, mainVars>>

(* _check_rate_limit, second half: record the admitted request; the lock is  *)
(* released when the coroutine returns.                                      *)
RecordRequest(c) ==
    LET key == Key(c)
        rule == RateLimitRule(key)
        reqs == Append(rate_states[key].requests, now)
    IN  /\ pc[c] = "record"
        /\ rate_states' = [rate_states EXCEPT ![key] =
               [requests |-> reqs, last_request |-> now,
                burst_used |-> IF Len(reqs) > rule.requests_per_interval
                               THEN Len(reqs) - rule.requests_per_interval ELSE 0]]
        /\ admitLog' = [admitLog EXCEPT ![key][now] = @ + 1]
        /\ locks' = [locks EXCEPT ![key] = ReleasedOnExit(@, c)]
        /\ call' = [call EXCEPT ![c].admitted = @ + 1]
        /\ IF call[c].op = "acquire"
           THEN /\ pc' = [pc EXCEPT ![c] = "done"]
                /\ outcome' = [outcome EXCEPT ![c] = "admitted"]
           ELSE /\ pc' = [pc EXCEPT ![c] = "transport"]
                /\ UNCHANGED outcome
        /\ UNCHANGED <<webVars, cfgVars, factoryVars, adapterState, lockObjects, now,
                       sent, wire, mapRes, mainVars>>

(* The task of the call is cancelled while it waits in acquire, for the lock *)
(* or for capacity: CancelledError is raised at the await and unwinds the    *)
(* `async with` block.                                                       *)
Cancel(c) ==
    /\ pc[c] \in {"acquire", "check"}
    /\ pc' = [pc EXCEPT ![c] = "done"]
    /\ outcome' = [outcome EXCEPT ![c] = "CancelledError"]
    /\ locks' = [locks EXCEPT ![Key(c)] = ReleasedOnExit(@, c)]
    /\ UNCHANGED <<webVars, cfgVars, factoryVars, adapterState, rate_states, admitLog,
                   lockObjects, now,
                   call, sent, wire, mapRes, mainVars>>

(* What the exchange answers to a request *)
NetworkResult(exchange, rejected) ==
    CASE netState[exchange] = "unreachable" -> "ConnectionError"
      [] netState[exchange] = "auth_rejected" -> "AuthenticationError"
      [] OTHER -> IF rejected THEN "ExchangeRejectedOrderError" ELSE "ok"

(* Whether the Adapter sends the request again after a ConnectionError *)
ShouldRetry(op, attempts, exchange) ==
    op \in ReadOps /\ attempts < retries(exchange)

(* Order states in an exchange's raw response *)
RawStatuses == {"FILLED", "PARTIALLY_FILLED", "CANCELED", "EXPIRED", "NEW"}

(* every raw order state is let through as a status *)
OrderStatusesAndRaw == {"FILLED", "PARTIALLY_FILLED", "CANCELLED", "FAILED"} \cup RawStatuses

(* OrderResult.status: the predefined status values *)
OrderStatuses == {"FILLED", "PARTIALLY_FILLED", "CANCELLED", "FAILED"}

(* The raw response of an accepted order, normalized into an OrderResult:   *)
(* the executed quantity decides between filled and partially filled, an    *)
(* order with nothing executed takes the exchange's state, and a state that *)
(* is not a predefined status value becomes FAILED.                         *)
OrderResult(requested, raw_status, raw_executed) ==
    LET named == CASE raw_executed >= requested /\ raw_executed > 0 -> "FILLED"
                   [] raw_executed > 0 -> "PARTIALLY_FILLED"
                   [] raw_status = "CANCELED" -> "CANCELLED"
                   [] OTHER -> raw_status
    IN  [status |-> IF named \in OrderStatuses THEN named ELSE "FAILED",
         executed |-> raw_executed]

(* The request goes out; `rejected` is the exchange's business decision and *)
(* raw_status, raw_executed the order state it reports for an accepted order *)
TransportReport(c, rejected, raw_status, raw_executed) ==
    LET exchange == call[c].exchange
        result == NetworkResult(exchange, rejected)
        again == result = "ConnectionError" /\ ShouldRetry(call[c].op, sent[c] + 1, exchange)
        order == OrderResult(call[c].fq, raw_status, raw_executed)
    IN  /\ pc[c] = "transport"
        /\ rejected => (netState[exchange] = "healthy" /\ call[c].op \in TradingOps)
        /\ raw_executed \in 0..call[c].fq
        /\ sent' = [sent EXCEPT ![c] = @ + 1]
        /\ wire' = [wire EXCEPT ![c] = [symbol |-> call[c].native, quantity |-> call[c].fq]]
        /\ adapterState' = [adapterState EXCEPT ![exchange] =
               IF result \in {"ConnectionError", "AuthenticationError"}
               THEN "Error" ELSE "Connected"]
        /\ IF again
           THEN /\ pc' = [pc EXCEPT ![c] = "acquire"]
                /\ call' = [call EXCEPT ![c].t0 = now]
                /\ UNCHANGED outcome
           ELSE /\ pc' = [pc EXCEPT ![c] = "done"]
                /\ outcome' = [outcome EXCEPT ![c] = Surfaced(call[c].op, result)]
                /\ IF result = "ok" /\ call[c].op \in TradingOps
                   THEN call' = [call EXCEPT ![c].status = order.status,
                                             ![c].executed = order.executed]
                   ELSE call' = Noted(c, result)
        /\ UNCHANGED <<webVars, cfgVars, factoryVars, limiterVars, now, mapRes, mainVars>>

(* The request goes out and an accepted order is filled in full *)
Transport(c, rejected) == TransportReport(c, rejected, "FILLED", call[c].fq)

(* Direct calls of the ExchangeMapper: normalize_symbol, denormalize_symbol *)
(* of its result, and normalize_symbol of that.  The Python functions have   *)
(* no raise statement, so `raised` stays "none".                             *)
NoMapRes ==
    [stage |-> "none", symbol |-> "none", exchange |-> "none", raised |-> "none",
     value |-> "none", back |-> "none", again |-> "none", table |-> symbol_mappings]

NormalizeCall(symbol, exchange) ==
    /\ mapRes' = [NoMapRes EXCEPT !.stage = "normalized", !.symbol = symbol,
                                  !.exchange = exchange, !.table = mapRes.table,
                                  !.value = normalize_symbol(symbol, exchange)]
    /\ UNCHANGED <<webVars, cfgVars, factoryVars, adapterState, limiterVars, now, callerVars, mainVars>>

DenormalizeBack ==
    /\ mapRes.stage = "normalized"
    /\ mapRes' = [mapRes EXCEPT !.stage = "denormalized",
                                !.back = denormalize_symbol(mapRes.value, mapRes.exchange)]
    /\ UNCHANGED <<webVars, cfgVars, factoryVars, adapterState, limiterVars, now, callerVars, mainVars>>

NormalizeAgain ==
    /\ mapRes.stage = "denormalized"
    /\ mapRes' = [mapRes EXCEPT !.stage = "renormalized",
                                !.again = normalize_symbol(mapRes.back, mapRes.exchange)]
    /\ UNCHANGED <<webVars, cfgVars, factoryVars, adapterState, limiterVars, now, callerVars, mainVars>>

DenormalizeCall(symbol, exchange) ==
    /\ mapRes' = [NoMapRes EXCEPT !.stage = "denormalize_only", !.symbol = symbol,
                                  !.exchange = exchange, !.table = mapRes.table,
                                  !.value = denormalize_symbol(symbol, exchange)]
    /\ UNCHANGED <<webVars, cfgVars, factoryVars, adapterState, limiterVars, now, callerVars, mainVars>>

(* The clock moves on its own *)
Tick ==
    /\ now < MaxTime
    /\ now' = now + 1
    /\ UNCHANGED <<webVars, cfgVars, factoryVars, adapterState, limiterVars, callerVars,
                   mapRes, mainVars>>

(* A timestamp one tick further in the past; a timestamp already MaxTime     *)
(* ticks old is expired for every interval and every wait ceiling.           *)
Older(t) == IF t > 0 THEN t - 1 ELSE 0

(* The clock moves without end: once it shows MaxTime, a tick moves every    *)
(* recorded timestamp one tick into the past instead.                        *)
Advance ==
    /\ IF now < MaxTime
       THEN /\ now' = now + 1
            /\ UNCHANGED <<rate_states, admitLog, call>>
       ELSE /\ now' = now
            /\ rate_states' =
                   [k \in Keys |->
                       [requests |-> [i \in 1..Len(rate_states[k].requests) |->
                                         Older(rate_states[k].requests[i])],
                        last_request |-> Older(rate_states[k].last_request),
                        burst_used |-> rate_states[k].burst_used]]
            /\ admitLog' = [k \in Keys |-> [t \in Times |->
                                IF t < MaxTime THEN admitLog[k][t + 1] ELSE 0]]
            /\ call' = [c \in Callers |-> [call[c] EXCEPT !.t0 = Older(@)]]
    /\ UNCHANGED <<webVars, cfgVars, factoryVars, adapterState, locks, lockObjects,
                   pc, outcome, sent, wire,
                   mapRes, mainVars>>

----------------------------------------------------------------------------
(* Frontend middleware (middleware.ts) and the /api/frontend-blocked route   *)

(* A pathname is a path without trailing slash followed by a number of       *)
(* slashes; "/" is the empty path followed by one slash.                     *)
PathBases ==
    {"", "/api/agent/analyze", "/api/agent/start", "/api/agent/stop",
     "/api/trading/history/reset", "/api/trading/history/sync",
     "/api/trading/strategy", "/api/trading/decisions"}

Pathnames ==
    {p \in [base : PathBases, slashes : 0..MaxSlashes] : p.base = "" => p.slashes >= 1}

Path(base) == [base |-> base, slashes |-> 0]

Methods == {"GET", "POST", "PUT", "PATCH", "DELETE", "HEAD", "OPTIONS"}

(* Values of ALLOW_CONTROL_OPERATIONS; "unset" is an undefined variable *)
EnvValues == {"true", "false", "TRUE", "1", "unset"}

ALWAYS_BLOCKED_PATHS == {Path("/api/agent/analyze")}

CONTROLLED_PATHS ==
    {Path("/api/agent/start"), Path("/api/agent/stop"),
     Path("/api/trading/history/reset"), Path("/api/trading/history/sync")}

WRITE_ONLY_BLOCKED_PATHS == {Path("/api/trading/strategy")}

(* PATCH is forgotten *)
WRITE_BLOCKED_METHODS_no_patch == {"POST", "PUT", "DELETE"}

WRITE_BLOCKED_METHODS == {"POST", "PUT", "PATCH", "DELETE"}

(* the pathname is compared as it came *)
normalizePath_identity(pathname) == pathname

normalizePath(pathname) ==
    IF pathname = [base |-> "", slashes |-> 1] THEN pathname
    ELSE IF pathname.slashes > 0
         THEN [pathname EXCEPT !.slashes = @ - 1]
         ELSE pathname

(* config.matcher: '/api/:path*' *)
matcher(pathname) == pathname.base # ""

(* middleware(request): "blocked" for rewriteToBlocked(request), "next" for  *)
(* NextResponse.next()                                                       *)
middleware(pathname, method) ==
    LET normalized == normalizePath(pathname)
        isControlAllowed == allowControl = "true"
    IN  IF normalized \in ALWAYS_BLOCKED_PATHS THEN "blocked"
        ELSE IF /\ ~isControlAllowed
                /\ normalized \in CONTROLLED_PATHS
        THEN "blocked"
        ELSE IF /\ ~isControlAllowed
                /\ normalized \in WRITE_ONLY_BLOCKED_PATHS
                /\ method \in WRITE_BLOCKED_METHODS
        THEN "blocked"
        ELSE "next"

(* Methods the /api/frontend-blocked route exports a handler for *)
BlockedRouteMethods == {"GET", "POST", "PUT", "PATCH", "DELETE", "HEAD"}

(* blockedResponse, and for a method without handler the framework's answer  *)
blockedResponse(method) ==
    IF method \in BlockedRouteMethods
    THEN [status |-> 403, error |-> "CONTROL_OPERATIONS_DISABLED"]
    ELSE [status |-> IF method = "OPTIONS" THEN 204 ELSE 405, error |-> "none"]

NoRequest == [pathname |-> Path(""), method |-> "none"]
NoResponse == [served |-> "none", status |-> 0, error |-> "none"]

(* A request arrives: the middleware runs on the paths its matcher selects,  *)
(* a rewritten request is answered by the blocked route, any other goes on.  *)
Request(pathname, method) ==
    LET verdict == IF matcher(pathname) THEN middleware(pathname, method) ELSE "next"
        answer == blockedResponse(method)
    IN  /\ request' = [pathname |-> pathname, method |-> method]
        /\ response' =
               IF verdict = "blocked"
               THEN [served |-> "/api/frontend-blocked", status |-> answer.status,
                     error |-> answer.error]
               ELSE [served |-> "passed", status |-> 0, error |-> "none"]
        /\ UNCHANGED <<allowControl, promptVars, clientVars, backendVars>>

----------------------------------------------------------------------------
(* Custom prompts: table custom_prompts and the PromptService operations    *)

PromptIds == 1..MaxPrompts

(* prompt_type must be one of 'analysis', 'system' (and 'decision') *)
PromptTypes == {"analysis", "system"}

(* A row that was never inserted; a deleted row is marked, ids are not      *)
(* used again (AUTOINCREMENT).                                               *)
NoRow == [state |-> "absent", prompt_type |-> "none", is_active |-> FALSE]

NoTx == [pc |-> "none", id |-> 0, off |-> {}, result |-> "none"]

Exists(table, id) == table[id].state = "row"

(* Active rows of a prompt type *)
ActiveOf(table, prompt_type) ==
    {id \in PromptIds : /\ Exists(table, id)
                        /\ table[id].prompt_type = prompt_type
                        /\ table[id].is_active}

(* the table has no unique index *)
no_unique_index(table) == TRUE

(* CREATE UNIQUE INDEX idx_custom_prompts_active_type                       *)
(*   ON custom_prompts(prompt_type, is_active) WHERE is_active = TRUE        *)
idx_custom_prompts_active_type(table) ==
    \A i, j \in PromptIds :
        (/\ Exists(table, i) /\ Exists(table, j)
         /\ table[i].is_active /\ table[j].is_active
         /\ table[i].prompt_type = table[j].prompt_type) => i = j

(* POST /prompts: the row is inserted with is_active at its default FALSE *)
create_prompt(prompt_type) ==
    /\ \E id \in PromptIds : custom_prompts[id].state = "absent"
    /\ LET id == CHOOSE i \in PromptIds :
                     /\ custom_prompts[i].state = "absent"
                     /\ \A j \in PromptIds : custom_prompts[j].state = "absent" => i <= j
       IN  custom_prompts' = [custom_prompts EXCEPT ![id] =
               [state |-> "row", prompt_type |-> prompt_type, is_active |-> FALSE]]
    /\ UNCHANGED <<tx, middlewareVars, clientVars, backendVars>>

(* DELETE /prompts/{id} *)
delete_prompt(id) ==
    /\ Exists(custom_prompts, id)
    /\ custom_prompts' = [custom_prompts EXCEPT ![id] =
           [state |-> "deleted", prompt_type |-> "none", is_active |-> FALSE]]
    /\ UNCHANGED <<tx, middlewareVars, clientVars, backendVars>>

(* PUT /prompts/{id}/activate with is_active: false *)
deactivate_prompt(id) ==
    /\ Exists(custom_prompts, id)
    /\ custom_prompts[id].is_active
    /\ custom_prompts' = [custom_prompts EXCEPT ![id].is_active = FALSE]
    /\ UNCHANGED <<tx, middlewareVars, clientVars, backendVars>>

(* PUT /prompts/{id}/activate with is_active: true, first statement of the  *)
(* transaction: the active prompts of the same type, as committed now, are  *)
(* to be deactivated.  404 when the prompt does not exist.                   *)
activate_prompt(c, id) ==
    /\ tx[c].pc \in {"none", "done"}
    /\ IF Exists(custom_prompts, id)
       THEN tx' = [tx EXCEPT ![c] =
                [pc |-> "deactivated", id |-> id,
                 off |-> ActiveOf(custom_prompts, custom_prompts[id].prompt_type) \ {id},
                 result |-> "none"]]
       ELSE tx' = [tx EXCEPT ![c] = [pc |-> "done", id |-> id, off |-> {}, result |-> "404"]]
    /\ UNCHANGED <<custom_prompts, middlewareVars, clientVars, backendVars>>

(* Second statement: the selected prompt is to be activated *)
activate_selected(c) ==
    /\ tx[c].pc = "deactivated"
    /\ tx' = [tx EXCEPT ![c].pc = "activated"]
    /\ UNCHANGED <<custom_prompts, middlewareVars, clientVars, backendVars>>

(* The table as the transaction's writes leave it *)
Written(table, t) ==
    [id \in PromptIds |->
        IF ~Exists(table, id) THEN table[id]
        ELSE IF id = t.id THEN [table[id] EXCEPT !.is_active = TRUE]
        ELSE IF id \in t.off THEN [table[id] EXCEPT !.is_active = FALSE]
        ELSE table[id]]

(* Commit: the writes become visible together, unless the unique index      *)
(* refuses them (500, rolled back) or the prompt is gone (404).              *)
activate_commit(c) ==
    LET after == Written(custom_prompts, tx[c])
    IN  /\ tx[c].pc = "activated"
        /\ IF ~Exists(custom_prompts, tx[c].id)
           THEN /\ tx' = [tx EXCEPT ![c].pc = "done", ![c].off = {}, ![c].result = "404"]
                /\ UNCHANGED custom_prompts
           ELSE IF idx_custom_prompts_active_type(after)
           THEN /\ tx' = [tx EXCEPT ![c].pc = "done", ![c].off = {}, ![c].result = "200"]
                /\ custom_prompts' = after
           ELSE /\ tx' = [tx EXCEPT ![c].pc = "done", ![c].off = {}, ![c].result = "500"]
                /\ UNCHANGED custom_prompts
        /\ UNCHANGED <<middlewareVars, clientVars, backendVars>>

----------------------------------------------------------------------------
(* Frontend API client: apiRequest and the fetch helpers of the dashboard   *)

DecisionIds == 1..MaxIds

(* Arrays of decisions with pairwise distinct ids, no longer than a page *)
Distinct(s) == \A i, j \in 1..Len(s) : i # j => s[i] # s[j]
Pages ==
    {p \in UNION {[1..n -> DecisionIds] : n \in 0..DECISIONS_PAGE_SIZE} : Distinct(p)}

(* What the server sends back.  network = FALSE: fetch itself rejected.      *)
(* body.kind: "invalid" is a body that is not JSON; message_type is the      *)
(* type of the "message" field of a JSON object.                             *)
HttpStatuses == {200, 204, 404, 500}
ServerMessages == {"Backend unavailable"}
NoBody == [kind |-> "null", message_type |-> "absent", message |-> "none", items |-> <<>>]
Bodies ==
    {[NoBody EXCEPT !.kind = k] : k \in {"null", "invalid"}}
    \cup {[NoBody EXCEPT !.kind = "array", !.items = p] : p \in Pages}
    \cup {[NoBody EXCEPT !.kind = "object", !.message_type = t] : t \in {"absent", "number"}}
    \cup {[NoBody EXCEPT !.kind = "object", !.message_type = "string", !.message = m] :
              m \in ServerMessages}
NetworkFailure == [network |-> FALSE, status |-> 0, body |-> NoBody]
Replies ==
    {NetworkFailure} \cup [network : {TRUE}, status : HttpStatuses, body : Bodies]

(* class ApiError extends Error; status 0 stands for an undefined status *)
ApiError(message, status) == [name |-> "ApiError", message |-> message, status |-> status]
TypeError == [name |-> "TypeError", message |-> "not a function", status |-> 0]
NoError == [name |-> "none", message |-> "none", status |-> 0]
NetworkErrorMessage == "Network error - unable to connect to trading system"
DefaultMessage(status) ==
    CASE status = 404 -> "API request failed: 404"
      [] status = 500 -> "API request failed: 500"
      [] OTHER -> "API request failed"

(* A settled promise *)
NoValue == [kind |-> "none", items |-> <<>>, stats |-> "none"]
Resolved(value) == [state |-> "resolved", value |-> value, error |-> NoError]
Rejected(err) == [state |-> "rejected", value |-> NoValue, error |-> err]
ArrayValue(items) == [kind |-> "array", items |-> items, stats |-> "none"]
StatsValue(s) == [kind |-> "stats", items |-> <<>>, stats |-> s]

(* response.ok *)
ResponseOk(status) == status >= 200 /\ status <= 299

(* apiRequest: a non-2xx response throws ApiError with the status and the    *)
(* server's message when the body is a JSON object with a string message; a  *)
(* rejected fetch, or a 2xx body that is not JSON, throws the network error. *)
apiRequest(reply) ==
    IF ~reply.network
    THEN Rejected(ApiError(NetworkErrorMessage, 0))
    ELSE IF ~ResponseOk(reply.status)
    THEN Rejected(ApiError(
             IF reply.body.kind = "object" /\ reply.body.message_type = "string"
             THEN reply.body.message
             ELSE DefaultMessage(reply.status),
             reply.status))
    ELSE IF reply.body.kind = "invalid" \/ reply.status = 204
    THEN Rejected(ApiError(NetworkErrorMessage, 0))
    ELSE Resolved([kind |-> reply.body.kind, items |-> reply.body.items,
                   stats |-> IF reply.body.kind = "object" THEN "data" ELSE "none"])

(* A decision's timestamp; decisions are numbered in the order they are made *)
timestamp(d) == d

(* transformDecisionData keeps the decision's identity *)
transformDecisionData(d) == d

(* Array.prototype.sort by timestamp, newest first *)
RECURSIVE SortByTimestampDesc(_)
SortByTimestampDesc(s) ==
    IF s = <<>> THEN <<>>
    ELSE LET i == CHOOSE k \in 1..Len(s) :
                      \A j \in 1..Len(s) :
                          timestamp(s[k]) > timestamp(s[j])
                          \/ (timestamp(s[k]) = timestamp(s[j]) /\ k <= j)
         IN  <<s[i]>> \o SortByTimestampDesc(SubSeq(s, 1, i - 1) \o SubSeq(s, i + 1, Len(s)))

(* array.map(...) on what apiRequest resolved to: a TypeError unless it is   *)
(* an array; the rows are mapped field by field.                             *)
MapArray(r) ==
    IF r.state = "rejected" THEN r
    ELSE IF r.value.kind # "array" THEN Rejected(TypeError)
    ELSE Resolved(ArrayValue(r.value.items))

(* try { ... } catch (error) { console.error(...); return fallback; } *)
Rethrow(attempt, fallback) == attempt
ReturnOnFailure(attempt, fallback) ==
    IF attempt.state = "rejected" THEN Resolved(fallback) ELSE attempt

ZeroStats == StatsValue("zero")

fetchAccountData(reply) ==
    ReturnOnFailure(MapArray(apiRequest(reply)), ArrayValue(<<>>))

fetchDecisions(reply) ==
    ReturnOnFailure(
        LET fetched == MapArray(apiRequest(reply))
            transformed == [i \in 1..Len(fetched.value.items) |->
                               transformDecisionData(fetched.value.items[i])]
        IN  IF fetched.state = "rejected" THEN fetched
            ELSE Resolved(ArrayValue(SortByTimestampDesc(transformed))),
        ArrayValue(<<>>))

fetchPositions(reply) ==
    ReturnOnFailure(MapArray(apiRequest(reply)), ArrayValue(<<>>))

(* fetchStats reads the fields of the body: a TypeError on null, undefined   *)
(* fields on an array                                                        *)
fetchStats(reply) ==
    ReturnOnFailure(
        LET r == apiRequest(reply)
        IN  IF r.state = "rejected" THEN r
            ELSE IF r.value.kind = "null" THEN Rejected(TypeError)
            ELSE Resolved(StatsValue(IF r.value.kind = "object" THEN "data" ELSE "undefined")),
        ZeroStats)

ApiFunctions ==
    {"apiRequest", "fetchAccountData", "fetchDecisions", "fetchPositions", "fetchStats"}
NoApiCall == [fn |-> "none", reply |-> NetworkFailure, outcome |-> Resolved(NoValue)]

(* One call of an API function, answered by the server with reply *)
Invoke(fn, reply) ==
    /\ apiCall' =
           [fn |-> fn, reply |-> reply,
            outcome |-> CASE fn = "apiRequest" -> apiRequest(reply)
                          [] fn = "fetchAccountData" -> fetchAccountData(reply)
                          [] fn = "fetchDecisions" -> fetchDecisions(reply)
                          [] fn = "fetchPositions" -> fetchPositions(reply)
                          [] fn = "fetchStats" -> fetchStats(reply)]
    /\ UNCHANGED <<middlewareVars, promptVars, dashVars, backendVars>>

----------------------------------------------------------------------------
(* TradingDashboard: loadData, the 30-second refresh and load-more           *)

(* What the backend answers to the decisions request of the dashboard: the  *)
(* request asks for order=desc, the page comes newest first.                 *)
ErrorBody == [NoBody EXCEPT !.kind = "object"]
DecisionReplies ==
    {NetworkFailure, [network |-> TRUE, status |-> 500, body |-> ErrorBody]}
    \cup {[network |-> TRUE, status |-> 200, body |-> [NoBody EXCEPT !.kind = "array", !.items = p]] :
              p \in {q \in Pages : SortByTimestampDesc(q) = q}}

(* The four requests of one loadData meet the backend in one condition:      *)
(* "ok", "network" (unreachable) or "http" (500).                            *)
ReplyOf(fate, body) ==
    CASE fate = "ok" -> [network |-> TRUE, status |-> 200, body |-> body]
      [] fate = "network" -> NetworkFailure
      [] fate = "http" -> [network |-> TRUE, status |-> 500, body |-> ErrorBody]
FateOf(reply) ==
    IF ~reply.network THEN "network" ELSE IF ~ResponseOk(reply.status) THEN "http" ELSE "ok"
SomeRows == [NoBody EXCEPT !.kind = "array", !.items = <<1>>]
SomeStats == [NoBody EXCEPT !.kind = "object"]

(* What the last render showed: the closure of handleLoadMoreDecisions reads *)
(* hasMoreDecisions and isLoadingMoreDecisions as of that render, and the    *)
(* decisions list is on screen only when loading is over and stats are set.  *)
View ==
    [shown |-> ~loading /\ stats # "null",
     hasMoreDecisions |-> hasMoreDecisions,
     isLoadingMoreDecisions |-> isLoadingMoreDecisions]

NoSettled == [op |-> "none", fate |-> "none"]

(* React commits the pending state updates and renders again *)
Render ==
    /\ rendered # View
    /\ rendered' = View
    /\ UNCHANGED <<accountData, decisions, positions, stats, loading, error, isOffline,
                   hasMoreDecisions, isLoadingMoreDecisions, initialLoad, refreshes,
                   loadMores, settled>>
    /\ UNCHANGED <<middlewareVars, promptVars, apiCall, backendVars>>

(* if (isInitial || prev.length === 0) *)
replacesListAlways(isInitial, prev) == TRUE
replacesList(isInitial, prev) == isInitial \/ Len(prev) = 0

Ids(s) == {s[i] : i \in 1..Len(s)}

(* decisionsResult.concat(prev.filter(d => !latestIds.has(d.id))) *)
mergeLatest(decisionsResult, prev) ==
    decisionsResult \o SelectSeq(prev, LAMBDA d : d \notin Ids(decisionsResult))

(* [...prev, ...nextPage.filter(d => !existingIds.has(d.id))] *)
appendUnfiltered(prev, nextPage) == prev \o nextPage
appendPage(prev, nextPage) ==
    prev \o SelectSeq(nextPage, LAMBDA d : d \notin Ids(prev))

(* loadData up to its await: the effect calls loadData(true) on mount, the   *)
(* interval calls loadData(false) every 30 seconds after that.               *)
LoadDataStart(isInitial) ==
    /\ IF isInitial THEN initialLoad = "idle"
       ELSE initialLoad # "idle" /\ refreshes < MaxRefreshes
    /\ initialLoad' = IF isInitial THEN "pending" ELSE initialLoad
    /\ refreshes' = IF isInitial THEN refreshes ELSE refreshes + 1
    /\ loading' = IF isInitial THEN TRUE ELSE loading
    /\ error' = "null"
    /\ isOffline' = FALSE
    /\ UNCHANGED <<accountData, decisions, positions, stats, hasMoreDecisions,
                   isLoadingMoreDecisions, rendered, loadMores, settled>>
    /\ UNCHANGED <<middlewareVars, promptVars, apiCall, backendVars>>

(* loadData after its await: Promise.all of the four fetches has settled *)
LoadDataSettle(isInitial, decisionsReply) ==
    LET fate == FateOf(decisionsReply)
        accountDataResult == fetchAccountData(ReplyOf(fate, SomeRows))
        decisionsResult == fetchDecisions(decisionsReply)
        positionsResult == fetchPositions(ReplyOf(fate, SomeRows))
        statsResult == fetchStats(ReplyOf(fate, SomeStats))
        results == <<accountDataResult, decisionsResult, positionsResult, statsResult>>
        rejections == SelectSeq(results, LAMBDA r : r.state = "rejected")
        page == decisionsResult.value.items
    IN  /\ IF isInitial THEN initialLoad = "pending" ELSE refreshes > 0
        /\ initialLoad' = IF isInitial THEN "done" ELSE initialLoad
        /\ refreshes' = IF isInitial THEN refreshes ELSE refreshes - 1
        /\ IF rejections = <<>>
           THEN /\ accountData' = accountDataResult.value.items
                /\ positions' = positionsResult.value.items
                /\ stats' = statsResult.value.stats
                /\ decisions' = IF replacesList(isInitial, decisions) THEN page
                                ELSE mergeLatest(page, decisions)
                /\ hasMoreDecisions' =
                       IF replacesList(isInitial, decisions)
                       THEN Len(page) = DECISIONS_PAGE_SIZE
                       ELSE hasMoreDecisions
                /\ UNCHANGED <<error, isOffline>>
           ELSE /\ error' = rejections[1].error.message
                /\ isOffline' = TRUE
                /\ stats' = IF isInitial THEN "zero" ELSE stats
                /\ UNCHANGED <<accountData, positions, decisions, hasMoreDecisions>>
        /\ loading' = IF isInitial THEN FALSE ELSE loading
        /\ settled' = [op |-> IF isInitial THEN "initial" ELSE "refresh",
                       fate |-> fate]
        /\ UNCHANGED <<isLoadingMoreDecisions, rendered, loadMores>>
        /\ UNCHANGED <<middlewareVars, promptVars, apiCall, backendVars>>

(* handleLoadMoreDecisions up to its await *)
handleLoadMoreDecisions ==
    /\ rendered.shown
    /\ ~(rendered.isLoadingMoreDecisions \/ ~rendered.hasMoreDecisions)
    /\ loadMores < MaxLoadMore
    /\ isLoadingMoreDecisions' = TRUE
    /\ loadMores' = loadMores + 1
    /\ UNCHANGED <<accountData, decisions, positions, stats, loading, error, isOffline,
                   hasMoreDecisions, rendered, initialLoad, refreshes, settled>>
    /\ UNCHANGED <<middlewareVars, promptVars, apiCall, backendVars>>

(* handleLoadMoreDecisions after its await *)
LoadMoreSettle(reply) ==
    LET result == fetchDecisions(reply)
        nextPage == result.value.items
    IN  /\ loadMores > 0
        /\ loadMores' = loadMores - 1
        /\ IF result.state = "resolved"
           THEN /\ decisions' = appendPage(decisions, nextPage)
                /\ hasMoreDecisions' =
                       IF Len(nextPage) < DECISIONS_PAGE_SIZE THEN FALSE ELSE hasMoreDecisions
           ELSE UNCHANGED <<decisions, hasMoreDecisions>>
        /\ isLoadingMoreDecisions' = FALSE
        /\ settled' = [op |-> "more", fate |-> FateOf(reply)]
        /\ UNCHANGED <<accountData, positions, stats, loading, error, isOffline, rendered,
                       initialLoad, refreshes>>
        /\ UNCHANGED <<middlewareVars, promptVars, apiCall, backendVars>>

----------------------------------------------------------------------------
(* Initial states and specifications *)

NetStates == {"healthy", "unreachable", "auth_rejected"}

InitBackend ==
    /\ cache = [n \in ExchangeNames |-> 0]
    /\ nameLock = [n \in ExchangeNames |-> 0]
    /\ constructed = [n \in ExchangeNames |-> 0]
    /\ firstGot = [n \in ExchangeNames |-> 0]
    /\ adapterState = [e \in Exchanges |-> "Disconnected"]
    /\ rate_states = [k \in Keys |-> NewRateLimitState]
    /\ locks = [k \in Keys |-> 0]
    /\ lockObjects = [k \in Keys |-> 0]
    /\ now = 0
    /\ admitLog = [k \in Keys |-> [t \in Times |-> 0]]
    /\ pc = [c \in Callers |-> "idle"]
    /\ call = [c \in Callers |-> NoCall]
    /\ outcome = [c \in Callers |-> "none"]
    /\ sent = [c \in Callers |-> 0]
    /\ wire = [c \in Callers |-> NoWire]
    /\ mainPc = 1
    /\ traders = [e \in Exchanges |-> 0]

(* The frontend before any request *)
InitMiddleware ==
    /\ allowControl = "unset"
    /\ request = NoRequest
    /\ response = NoResponse

(* An empty custom_prompts table and no open transaction *)
InitPrompts ==
    /\ custom_prompts = [id \in PromptIds |-> NoRow]
    /\ tx = [c \in Callers |-> NoTx]

(* No call of the API client yet; the dashboard as constructed, before its  *)
(* effect runs: the state hooks hold their initial values.                  *)
InitClient ==
    /\ apiCall = NoApiCall
    /\ accountData = <<>>
    /\ decisions = <<>>
    /\ positions = <<>>
    /\ stats = "null"
    /\ loading = TRUE
    /\ error = "null"
    /\ isOffline = FALSE
    /\ hasMoreDecisions = TRUE
    /\ isLoadingMoreDecisions = FALSE
    /\ rendered = [shown |-> FALSE, hasMoreDecisions |-> TRUE,
                   isLoadingMoreDecisions |-> FALSE]
    /\ initialLoad = "idle"
    /\ refreshes = 0
    /\ loadMores = 0
    /\ settled = NoSettled

InitObjects ==
    /\ InitBackend
    /\ InitMiddleware
    /\ InitPrompts
    /\ InitClient

(* The ExchangeMapper holds the configured symbol mapping *)
InitProgram ==
    /\ InitObjects
    /\ mapRes = NoMapRes

(* One caller trading through the Adapters it got from the Factory *)
InitTrade ==
    /\ environment = "production"
    /\ creds = GoodBundles
    /\ netState \in [Exchanges -> NetStates]
    /\ InitProgram

NextTrade ==
    \/ MainStep
    \/ \E op \in TradingOps, e \in Exchanges, sym \in Symbols, q \in Quantities, lev \in Leverages, market \in BOOLEAN : TradeCall(1, op, e, sym, q, lev, IF market THEN 0 ELSE CurrentPrice(sym))
    \/ AcquireEnter(1)
    \/ CheckRateLimit(1)
    \/ RecordRequest(1)
    \/ \E rejected \in BOOLEAN : Transport(1, rejected)
    \/ Return(1)

SpecTrade == InitTrade /\ [][NextTrade]_vars

(* The ExchangeMapper called directly, on canonical, native and unknown strings *)
MapperInputs ==
    {"BTC/USDT", "ETH/USDT", "SOL/USDT", "DOGE/USDT", "BTCUSDT", "ETHUSDT",
     "SOLUSDT", "BTC", "ETH", "SOL"}

InitMapper ==
    /\ environment = "production"
    /\ creds = GoodBundles
    /\ netState = [e \in Exchanges |-> "healthy"]
    /\ InitProgram

NextMapper ==
    \/ \E sym \in MapperInputs, e \in ExchangeNames : NormalizeCall(sym, e)
    \/ DenormalizeBack
    \/ NormalizeAgain
    \/ \E sym \in MapperInputs, e \in ExchangeNames : DenormalizeCall(sym, e)

SpecMapper == InitMapper /\ [][NextMapper]_vars

(* Concurrent callers of Factory.get *)
InitFactory ==
    /\ environment \in Environments
    /\ creds \in [binance_futures : BinanceBundles, hyperliquid : HyperliquidBundles]
    /\ netState = [e \in Exchanges |-> "healthy"]
    /\ InitProgram

NextFactory ==
    \/ \E c \in Callers, name \in ExchangeNames : FactoryGet(c, name)
    \/ \E c \in Callers : FactoryGetDefault(c)
    \/ \E c \in Callers : get_trader(c)
    \/ \E c \in Callers : FactoryLock(c)
    \/ \E c \in Callers : FactoryResolve(c)
    \/ \E c \in Callers : FactoryConstruct(c)
    \/ \E c \in Callers : Return(c)

SpecFactory == InitFactory /\ [][NextFactory]_vars

(* Concurrent callers of ExchangeRateLimiter.acquire on one orders bucket *)
InitRate ==
    /\ environment = "production"
    /\ creds = GoodBundles
    /\ netState = [e \in Exchanges |-> "healthy"]
    /\ InitProgram

NextRate ==
    \/ \E c \in Callers : AcquireCall(c, "hyperliquid", "orders")
    \/ \E c \in Callers : AcquireEnter(c)
    \/ \E c \in Callers : CheckRateLimit(c)
    \/ \E c \in Callers : RecordRequest(c)
    \/ \E c \in Callers : Return(c)
    \/ Tick

SpecRate == InitRate /\ [][NextRate]_vars

(* Concurrent trading calls on one exchange, cancelled at any moment before  *)
(* their admission.                                                          *)
InitCancel ==
    /\ environment = "production"
    /\ creds = GoodBundles
    /\ netState \in [Exchanges -> {"healthy", "unreachable"}]
    /\ InitProgram

NextCancel ==
    \/ MainStep
    \/ \E c \in Callers, op \in {"open_long", "close_short"} : TradeCall(c, op, "hyperliquid", "BTC/USDT", 10000, 1, 0)
    \/ \E c \in Callers : AcquireEnter(c)
    \/ \E c \in Callers : CheckRateLimit(c)
    \/ \E c \in Callers : RecordRequest(c)
    \/ \E c \in Callers : Transport(c, FALSE)
    \/ \E c \in Callers : Cancel(c)
    \/ \E c \in Callers : Return(c)

SpecCancel == InitCancel /\ [][NextCancel]_vars

(* normalize_symbol, denormalize_symbol and normalize_symbol again, for      *)
(* every mapping table over a few symbols, among them tables that map two    *)
(* internal symbols to one exchange symbol and tables whose exchange symbols *)
(* are internal symbols of other entries.                                    *)
RoundTripSymbols == {"BTC/USDT", "ETH/USDT", "BTCUSDT"}

MappingTables == UNION {[K -> RoundTripSymbols] : K \in SUBSET RoundTripSymbols}

InitRoundTrip ==
    /\ environment = "production"
    /\ creds = GoodBundles
    /\ netState = [e \in Exchanges |-> "healthy"]
    /\ InitObjects
    /\ \E t \in MappingTables :
           mapRes = [NoMapRes EXCEPT !.table = [binance_futures |-> t, hyperliquid |-> t]]

NextRoundTrip ==
    \/ \E sym \in RoundTripSymbols, e \in Exchanges : NormalizeCall(sym, e)
    \/ DenormalizeBack
    \/ NormalizeAgain

SpecRoundTrip == InitRoundTrip /\ [][NextRoundTrip]_vars

(* round_quantity called directly on raw quantities around the steps and the *)
(* minimum notionals of both exchanges, with and without a price.            *)
RawQuantities == {0, 1, 10, 99, 100, 199, 2000, 9999, 10000, 10099, 33350, 40000}

InitQuantity ==
    /\ environment = "production"
    /\ creds = GoodBundles
    /\ netState = [e \in Exchanges |-> "healthy"]
    /\ InitProgram

NextQuantity ==
    \/ \E sym \in Symbols, e \in Exchanges, q \in RawQuantities, known \in BOOLEAN : RoundQuantityCall(1, sym, e, q, IF known THEN CurrentPrice(sym) ELSE 0)
    \/ Return(1)

SpecQuantity == InitQuantity /\ [][NextQuantity]_vars

(* Callers that acquire on one bucket again and again while the clock runs.  *)
(* The event loop runs every coroutine that can run, time passes, and an     *)
(* asyncio.Lock wakes its waiters in turn, so a waiter is not passed over    *)
(* for ever.                                                                 *)
InitLive ==
    /\ environment = "production"
    /\ creds = GoodBundles
    /\ netState = [e \in Exchanges |-> "healthy"]
    /\ InitProgram

(* Two callers contend: one waits while the other acquires again and again. *)
LiveCallers == {c \in Callers : c <= 2}

NextLive ==
    \/ \E c \in LiveCallers : AcquireCall(c, "hyperliquid", "orders")
    \/ \E c \in LiveCallers : AcquireEnter(c)
    \/ \E c \in LiveCallers : CheckRateLimit(c)
    \/ \E c \in LiveCallers : RecordRequest(c)
    \/ \E c \in LiveCallers : Return(c)
    \/ Advance

FairLive ==
    /\ WF_vars(Advance)
    /\ \A c \in LiveCallers : SF_vars(AcquireEnter(c))
    /\ \A c \in LiveCallers : WF_vars(CheckRateLimit(c))
    /\ \A c \in LiveCallers : WF_vars(RecordRequest(c))

SpecLive == InitLive /\ [][NextLive]_vars /\ FairLive

(* Trading operations on both Adapters, with every order state an exchange  *)
(* can report for an accepted order: nothing, a part or all of it executed.  *)
InitOrders ==
    /\ environment = "production"
    /\ creds = GoodBundles
    /\ netState \in [Exchanges -> NetStates]
    /\ InitProgram

NextOrders ==
    \/ MainStep
    \/ \E op \in TradingOps, e \in Exchanges, q \in Quantities :
           TradeCall(1, op, e, "BTC/USDT", q, 1, 0)
    \/ AcquireEnter(1)
    \/ CheckRateLimit(1)
    \/ RecordRequest(1)
    \/ \E rejected \in BOOLEAN, raw_status \in RawStatuses :
           \E raw_executed \in {0, call[1].fq \div 2, call[1].fq} :
               TransportReport(1, rejected, raw_status, raw_executed)
    \/ Return(1)

SpecOrders == InitOrders /\ [][NextOrders]_vars

(* Credential stores with every field missing, empty, or of a right or      *)
(* wrong length, with and without the "0x" prefix.                           *)
ApiKeyFields == {"api_key", "api_secret"}
ApiKeyValues == {Str(0, FALSE), Str(63, FALSE), Str(64, FALSE), Str(64, TRUE), Str(65, FALSE)}
WalletFields == {"wallet_address", "private_key", "main_wallet"}
WalletValues == {Str(0, FALSE), Str(42, TRUE), Str(42, FALSE), Str(66, TRUE), Str(66, FALSE)}

AllBinanceBundles == UNION {[K -> ApiKeyValues] : K \in SUBSET ApiKeyFields}
AllHyperliquidBundles == UNION {[K -> WalletValues] : K \in SUBSET WalletFields}

InitCreds ==
    /\ environment = "production"
    /\ creds \in [binance_futures : AllBinanceBundles, hyperliquid : AllHyperliquidBundles]
    /\ netState = [e \in Exchanges |-> "healthy"]
    /\ InitProgram

NextCreds ==
    \/ \E name \in ExchangeNames : ResolveCall(1, name)
    \/ Return(1)

SpecCreds == InitCreds /\ [][NextCreds]_vars

(* Monitoring by one caller: validate_symbol on both Adapters and            *)
(* health_check on the hyperliquid Adapter, in every state of the network,  *)
(* while the clock runs and the probes fill their bucket.                    *)
InitMonitor ==
    /\ environment = "production"
    /\ creds = GoodBundles
    /\ netState \in [Exchanges -> NetStates]
    /\ InitProgram

NextMonitor ==
    \/ MainStep
    \/ \E e \in Exchanges, symbol \in Symbols : ValidateSymbolCall(1, e, symbol)
    \/ HealthCheckCall(1, "hyperliquid")
    \/ AcquireEnter(1)
    \/ CheckRateLimit(1)
    \/ RecordRequest(1)
    \/ Transport(1, FALSE)
    \/ Return(1)
    \/ Tick

SpecMonitor == InitMonitor /\ [][NextMonitor]_vars

(* Requests of every method to the guarded and unguarded paths, under every *)
(* value of ALLOW_CONTROL_OPERATIONS.                                        *)
InitRequests ==
    /\ environment = "production"
    /\ creds = GoodBundles
    /\ netState = [e \in Exchanges |-> "healthy"]
    /\ InitBackend
    /\ mapRes = NoMapRes
    /\ allowControl \in EnvValues
    /\ request = NoRequest
    /\ response = NoResponse
    /\ InitPrompts
    /\ InitClient

NextRequests == \E pathname \in Pathnames, method \in Methods : Request(pathname, method)

SpecRequests == InitRequests /\ [][NextRequests]_vars

(* Two clients of the prompt API: prompts are created, deleted, deactivated *)
(* and activated, the activations as concurrent transactions.                *)
PromptClients == {c \in Callers : c <= 2}

InitPromptApi ==
    /\ environment = "production"
    /\ creds = GoodBundles
    /\ netState = [e \in Exchanges |-> "healthy"]
    /\ InitProgram

NextPromptApi ==
    \/ \E prompt_type \in PromptTypes : create_prompt(prompt_type)
    \/ \E id \in PromptIds : delete_prompt(id)
    \/ \E id \in PromptIds : deactivate_prompt(id)
    \/ \E c \in PromptClients, id \in PromptIds : activate_prompt(c, id)
    \/ \E c \in PromptClients : activate_selected(c)
    \/ \E c \in PromptClients : activate_commit(c)

SpecPromptApi == InitPromptApi /\ [][NextPromptApi]_vars

(* Calls of the API client against every reply of the server *)
InitApi ==
    /\ environment = "production"
    /\ creds = GoodBundles
    /\ netState = [e \in Exchanges |-> "healthy"]
    /\ InitProgram

NextApi == \E fn \in ApiFunctions, reply \in Replies : Invoke(fn, reply)

SpecApi == InitApi /\ [][NextApi]_vars

(* The dashboard from its mount on: the initial load, the periodic refresh  *)
(* and load-more, their requests settling in any order with any reply.      *)
InitDashboard ==
    /\ environment = "production"
    /\ creds = GoodBundles
    /\ netState = [e \in Exchanges |-> "healthy"]
    /\ InitProgram

NextDashboard ==
    \/ \E isInitial \in BOOLEAN : LoadDataStart(isInitial)
    \/ \E isInitial \in BOOLEAN, decisionsReply \in DecisionReplies :
           LoadDataSettle(isInitial, decisionsReply)
    \/ Render
    \/ handleLoadMoreDecisions
    \/ \E reply \in DecisionReplies : LoadMoreSettle(reply)

SpecDashboard == InitDashboard /\ [][NextDashboard]_vars

(* Concurrent callers of acquire on the buckets of both exchanges, within    *)
(* one interval.                                                             *)
InitFrame ==
    /\ environment = "production"
    /\ creds = GoodBundles
    /\ netState = [e \in Exchanges |-> "healthy"]
    /\ InitProgram

NextFrame ==
    \/ \E c \in Callers, k \in EndpointClasses : AcquireCall(c, "binance_futures", k)
    \/ \E c \in Callers : AcquireCall(c, "hyperliquid", "orders")
    \/ \E c \in Callers : AcquireEnter(c)
    \/ \E c \in Callers : CheckRateLimit(c)
    \/ \E c \in Callers : RecordRequest(c)
    \/ \E c \in Callers : Return(c)

SpecFrame == InitFrame /\ [][NextFrame]_vars

(* main() and one caller using both Adapters: reads, which are retried, and  *)
(* well-formed market orders, against every state of the two exchanges.      *)
InitAdapters ==
    /\ environment = "production"
    /\ creds \in [binance_futures : BinanceBundles, hyperliquid : HyperliquidBundles]
    /\ netState \in [Exchanges -> NetStates]
    /\ InitProgram

NextAdapters ==
    \/ MainStep
    \/ \E name \in Exchanges : FactoryGet(1, name)
    \/ FactoryLock(1)
    \/ FactoryResolve(1)
    \/ FactoryConstruct(1)
    \/ \E op \in ReadOps, e \in Exchanges : ReadCall(1, op, e)
    \/ \E op \in TradingOps, e \in Exchanges : TradeCall(1, op, e, "BTC/USDT", 10000, 1, 0)
    \/ AcquireEnter(1)
    \/ CheckRateLimit(1)
    \/ RecordRequest(1)
    \/ \E rejected \in BOOLEAN : Transport(1, rejected)
    \/ Return(1)

SpecAdapters == InitAdapters /\ [][NextAdapters]_vars

----------------------------------------------------------------------------
(* Properties of the trading contract *)

(* The mapping table holds an entry for the canonical symbol *)
HasMapping(symbol, exchange) ==
    exchange \in DOMAIN symbol_mappings /\ symbol \in DOMAIN symbol_mappings[exchange]

(* Configured leverage ceiling of a canonical symbol on an exchange:         *)
(* trading.leverage.per_symbol where it names the symbol, else maximum.      *)
ConfiguredMaxLeverage(exchange, symbol) ==
    CASE exchange = "binance_futures" /\ symbol = "BTC/USDT" -> 10
      [] exchange = "binance_futures" /\ symbol = "ETH/USDT" -> 15
      [] exchange = "binance_futures" -> 20
      [] exchange = "hyperliquid" /\ symbol = "BTC/USDT" -> 20
      [] exchange = "hyperliquid" /\ symbol = "ETH/USDT" -> 25
      [] OTHER -> 50

(* The order's notional at the current price, after formatting, is below the *)
(* exchange's minimum notional.                                              *)
BelowMinNotional(exchange, symbol, quantity) ==
    format_quantity(exchange, quantity) * CurrentPrice(symbol)
        < exchange_limits[exchange].min_notional

LocalErrors ==
    {"UnsupportedSymbolError", "InvalidOrderParametersError", "RiskLimitExceededError"}

(* C1: a trading operation reaches the transport layer only after, for the   *)
(* same invocation, its symbol resolved through the mapping table, its       *)
(* formatted quantity met the minimum notional, its leverage was within the  *)
(* configured ceiling and the Rate Limiter admitted each request; an         *)
(* invocation that ended in a local error has sent nothing.                  *)
C1_TransportOnlyAfterLocalChecks ==
    \A c \in Callers :
        /\ (call[c].op \in TradingOps /\ sent[c] > 0) =>
              /\ HasMapping(call[c].symbol, call[c].exchange)
              /\ ~BelowMinNotional(call[c].exchange, call[c].symbol, call[c].quantity)
              /\ call[c].op \in OpenOps =>
                     call[c].leverage <= ConfiguredMaxLeverage(call[c].exchange, call[c].symbol)
              /\ call[c].admitted >= sent[c]
        /\ (call[c].op \in TradingOps /\ outcome[c] \in LocalErrors) => sent[c] = 0

(* C2: open_long / open_short with a leverage above the configured ceiling   *)
(* of the symbol has failed with RiskLimitExceededError when it leaves the   *)
(* Adapter and has sent nothing to the transport layer.                      *)
C2_LeverageAboveMaxRejected ==
    \A c \in Callers :
        (/\ call[c].op \in OpenOps
         /\ call[c].leverage > ConfiguredMaxLeverage(call[c].exchange, call[c].symbol))
        => /\ sent[c] = 0
           /\ pc[c] = "done"
           /\ outcome[c] = "RiskLimitExceededError"

(* An open call above the per-symbol ceiling, though within the exchange's   *)
(* overall maximum, was rejected without a transport call.                   *)
C2_Witness ==
    \E c \in Callers :
        /\ call[c].op \in OpenOps
        /\ call[c].leverage > ConfiguredMaxLeverage(call[c].exchange, call[c].symbol)
        /\ call[c].leverage <= leverage_maximum(call[c].exchange)
        /\ pc[c] = "done"
        /\ outcome[c] = "RiskLimitExceededError"
        /\ sent[c] = 0

(* C3: open_long / open_short whose formatted quantity times the current     *)
(* price is below the minimum notional sends nothing and ends with           *)
(* InvalidOrderParametersError, whether or not the order carries a price.    *)
C3_BelowMinNotionalRejected ==
    \A c \in Callers :
        (/\ call[c].op \in OpenOps
         /\ call[c].leverage <= ConfiguredMaxLeverage(call[c].exchange, call[c].symbol)
         /\ BelowMinNotional(call[c].exchange, call[c].symbol, call[c].quantity))
        => /\ sent[c] = 0
           /\ pc[c] = "done" => outcome[c] = "InvalidOrderParametersError"

(* C4: normalize_symbol returns the table's native symbol when the table has *)
(* an entry and raises UnsupportedSymbolError when it has none; it never     *)
(* returns the canonical string it was given.                                *)
C4_NoPassThrough ==
    mapRes.stage = "normalized" =>
        /\ IF HasMapping(mapRes.symbol, mapRes.exchange)
           THEN /\ mapRes.raised = "none"
                /\ mapRes.value = symbol_mappings[mapRes.exchange][mapRes.symbol]
           ELSE mapRes.raised = "UnsupportedSymbolError"
        /\ mapRes.raised = "none" => mapRes.value # mapRes.symbol

----------------------------------------------------------------------------
(* Properties of the Factory *)

(* A finished, successful get(n) *)
GotInstance(c, n) ==
    call[c].op = "get" /\ call[c].exchange = n /\ pc[c] = "done" /\ outcome[c] = "ok"

(* C5: every successful get(n) returns the instance the first successful     *)
(* get(n) returned, and at most one Adapter is ever constructed for n.       *)
C5_SameCachedInstance ==
    \A n \in Exchanges :
        /\ constructed[n] <= 1
        /\ \A c \in Callers :
               GotInstance(c, n) => (call[c].instance # 0 /\ call[c].instance = firstGot[n])

(* Two callers hold the result of a successful get of the same name *)
C5_Witness ==
    \E n \in Exchanges : \E c1, c2 \in Callers :
        c1 # c2 /\ GotInstance(c1, n) /\ GotInstance(c2, n) /\ constructed[n] = 1

(* The caller is inside the first-access section of get *)
InFirstAccess(c) == pc[c] \in {"get_resolve", "get_construct"}

(* C6: concurrent first access to n constructs one Adapter, which every      *)
(* caller receives: at most one caller at a time is inside the first-access  *)
(* section of a name, and a caller waiting for a name nobody is constructing *)
(* can proceed whatever is being constructed under other names.              *)
C6_OneConstructionPerName ==
    /\ \A n \in Exchanges : constructed[n] <= 1
    /\ \A c1, c2 \in Callers :
           (c1 # c2 /\ InFirstAccess(c1) /\ InFirstAccess(c2))
               => call[c1].exchange # call[c2].exchange
    /\ \A c \in Callers, n \in Exchanges :
           GotInstance(c, n) => (constructed[n] = 1 /\ call[c].instance = cache[n])
    /\ \A c \in Callers :
           (/\ pc[c] = "get_lock"
            /\ \A d \in Callers : InFirstAccess(d) => call[d].exchange # call[c].exchange)
           => ENABLED FactoryLock(c)

(* One caller is constructing n's Adapter while another waits for n *)
C6_Witness ==
    \E c1, c2 \in Callers :
        /\ c1 # c2
        /\ pc[c1] = "get_construct"
        /\ pc[c2] = "get_lock"
        /\ call[c1].exchange = call[c2].exchange

(* The name is not a configured exchange, is disabled in the environment, or *)
(* its credentials fail structural validation.                               *)
NotUsable(n) ==
    \/ n \notin Exchanges
    \/ ~ExchangeEnabled(n)
    \/ creds[n] # GoodBundles[n]

(* C7: get(n) for an unknown, disabled or invalid n ends in                  *)
(* ConfigurationError, sends nothing, and no Adapter for n is ever           *)
(* constructed, cached or returned, so no operation can start on n.          *)
C7_BadNameConfigurationError ==
    \A n \in ExchangeNames :
        NotUsable(n) =>
            /\ cache[n] = 0
            /\ constructed[n] = 0
            /\ \A c \in Callers :
                   (call[c].op = "get" /\ call[c].exchange = n)
                       => /\ sent[c] = 0
                          /\ call[c].instance = 0
                          /\ pc[c] = "done" => outcome[c] = "ConfigurationError"
            /\ n \in Exchanges =>
                   \A c \in Callers : ~ENABLED ReadCall(c, "get_balance", n)

(* get of a disabled name and get of a name with malformed credentials have *)
(* both failed.                                                              *)
C7_Witness ==
    \E c1, c2 \in Callers :
        /\ c1 # c2
        /\ pc[c1] = "done" /\ call[c1].op = "get" /\ outcome[c1] = "ConfigurationError"
        /\ pc[c2] = "done" /\ call[c2].op = "get" /\ outcome[c2] = "ConfigurationError"
        /\ call[c1].exchange = "hyperliquid" /\ ~ExchangeEnabled("hyperliquid")
        /\ call[c2].exchange = "binance_futures"
        /\ creds["binance_futures"] # GoodBundles["binance_futures"]

----------------------------------------------------------------------------
(* Properties of the Rate Limiter *)

RECURSIVE AdmittedBetween(_, _, _)
(* Calls the bucket admitted at the times from..to *)
AdmittedBetween(key, from, to) ==
    IF from > to THEN 0
    ELSE (IF from \in Times THEN admitLog[key][from] ELSE 0)
         + AdmittedBetween(key, from + 1, to)

(* Configured capacity of a bucket: N calls per interval plus the burst *)
Capacity(key) ==
    RateLimitRule(key).requests_per_interval + RateLimitRule(key).burst_allowance

(* C8: in every interval the number of calls a bucket admitted is at most    *)
(* its capacity (N plus the burst allowance); a call that found no capacity  *)
(* waited or ended with RateLimitError and was not admitted.                 *)
C8_NeverExceedsCapacity ==
    /\ \A key \in Keys, t \in Times :
           AdmittedBetween(key, t - RateLimitRule(key).interval_seconds + 1, t)
               <= Capacity(key)
    /\ \A c \in Callers :
           (call[c].op = "acquire" /\ outcome[c] = "RateLimitError") => call[c].admitted = 0

(* A bucket is filled to capacity within the current interval and a further  *)
(* call on it ended with RateLimitError.                                     *)
C8_Witness ==
    \E c \in Callers :
        /\ call[c].op = "acquire"
        /\ pc[c] = "done"
        /\ outcome[c] = "RateLimitError"
        /\ AdmittedBetween(Key(c), now - RateLimitRule(Key(c)).interval_seconds + 1, now)
               = Capacity(Key(c))

----------------------------------------------------------------------------
(* Properties across Adapters *)

(* What get_balance returns, given the state of the exchange it addresses *)
ExpectedBalanceOutcome(exchange) ==
    CASE netState[exchange] = "unreachable" -> "ConnectionError"
      [] netState[exchange] = "auth_rejected" -> "AuthenticationError"
      [] OTHER -> "ok"

(* Results depend on the addressed exchange alone; main() ends with a trader *)
(* for every exchange whose credentials are well-formed; get returns the     *)
(* Adapter of such an exchange whatever state the others are in.             *)
Isolated ==
    /\ \A c \in Callers :
           (call[c].op = "get_balance" /\ pc[c] = "done")
               => outcome[c] = ExpectedBalanceOutcome(call[c].exchange)
    /\ mainPc > Len(EnabledInOrder) =>
           \A e \in Exchanges :
               (ExchangeEnabled(e) /\ creds[e] = GoodBundles[e])
                   => (traders[e] # 0 /\ cache[e] # 0)
    /\ \A c \in Callers :
           (/\ call[c].op = "get" /\ pc[c] = "done"
            /\ call[c].exchange \in Exchanges
            /\ creds[call[c].exchange] = GoodBundles[call[c].exchange])
               => outcome[c] = "ok"

(* A step changes the state of an Adapter or of its buckets only if it is    *)
(* the construction of that Adapter or a step of a call addressed to it.     *)
TouchesOnlyItsExchange ==
    \A e \in Exchanges :
        (\/ adapterState'[e] # adapterState[e]
         \/ \E k \in EndpointClasses : rate_states'[<<e, k>>] # rate_states[<<e, k>>])
        => \/ cache[e] = 0 /\ cache'[e] # 0
           \/ \E c \in Callers : call[c].exchange = e /\ pc[c] # "idle"

(* C9: a failure of one exchange's Adapter (ConnectionError,                 *)
(* AuthenticationError, a failed initialisation) changes no state of another *)
(* exchange's Adapter and does not keep the Factory from returning it:       *)
(* get_balance on each exchange answers for that exchange alone.             *)
C9_ExchangeIsolation == [][TouchesOnlyItsExchange /\ Isolated']_vars

(* get_balance has succeeded on one exchange while the other exchange's      *)
(* Adapter is in the Error state after a ConnectionError.                    *)
C9_Witness ==
    \E a, b \in Exchanges : \E c \in Callers :
        /\ a # b
        /\ netState[a] = "unreachable"
        /\ adapterState[a] = "Error"
        /\ call[c].op = "get_balance" /\ call[c].exchange = b
        /\ pc[c] = "done" /\ outcome[c] = "ok"
        /\ adapterState[b] = "Connected"

(* Configured maximum number of attempts of a read-only call *)
MaxAttempts(exchange) == 3

(* C10: an invocation of a trading operation transmits at most one request,  *)
(* also when it ends in ConnectionError; only get_balance and get_positions  *)
(* are sent again, and never more often than the configured maximum.         *)
C10_NoTradingRetry ==
    \A c \in Callers :
        /\ call[c].op \in TradingOps => sent[c] <= 1
        /\ call[c].op \in ReadOps => sent[c] <= MaxAttempts(call[c].exchange)
        /\ call[c].op \notin TradingOps \cup ReadOps => sent[c] = 0

(* A trading operation ended in ConnectionError after its single request *)
C10_Witness ==
    \E c \in Callers :
        /\ call[c].op \in TradingOps
        /\ pc[c] = "done"
        /\ outcome[c] = "ConnectionError"
        /\ sent[c] = 1

----------------------------------------------------------------------------
(* Frame of acquire *)

(* The bucket a caller's acquire addresses *)
Addressed(c) == <<call[c].exchange, call[c].endpoint>>

InAcquire(c) == pc[c] \in {"acquire", "check", "record"}

(* A step changes a bucket, its lock or its admissions only if a caller is   *)
(* inside an acquire that addresses that bucket.                             *)
OnlyAddressedBucketChanges ==
    \A k \in Keys :
        (\/ rate_states'[k] # rate_states[k]
         \/ locks'[k] # locks[k]
         \/ admitLog'[k] # admitLog[k])
        => \E c \in Callers : InAcquire(c) /\ Addressed(c) = k

(* An acquire proceeds on the state of its own bucket alone: it takes the    *)
(* bucket's lock when that lock is free and is admitted when that bucket has *)
(* capacity, whatever the state of the other buckets and locks.              *)
ProceedsOnOwnBucket ==
    \A c \in Callers :
        /\ (pc[c] = "acquire" /\ locks[Addressed(c)] = 0) => ENABLED AcquireEnter(c)
        /\ (/\ pc[c] = "check"
            /\ Len(Pruned(rate_states[Addressed(c)].requests, Addressed(c), now))
                   < Capacity(Addressed(c)))
           => ENABLED CheckRateLimit(c)
        /\ pc[c] = "record" =>
               Len(rate_states[Addressed(c)].requests) < Capacity(Addressed(c))

(* C11: acquire(E1, c) reads and modifies the bucket of (E1, c) alone; with  *)
(* every bucket of E1 exhausted, the buckets of E2 are unchanged and an      *)
(* acquire on E2 is admitted without waiting on E1's budget or lock.         *)
C11_AcquireFrame == []ProceedsOnOwnBucket /\ [][OnlyAddressedBucketChanges]_vars

(* Every bucket of binance_futures is exhausted and an acquire on            *)
(* hyperliquid has been admitted as the first request of its bucket.         *)
C11_Witness ==
    \E c \in Callers :
        /\ \A k \in EndpointClasses :
               Len(rate_states[<<"binance_futures", k>>].requests)
                   = Capacity(<<"binance_futures", k>>)
        /\ call[c].op = "acquire" /\ call[c].exchange = "hyperliquid"
        /\ pc[c] = "done" /\ outcome[c] = "admitted"
        /\ rate_states[<<"hyperliquid", "orders">>].requests = <<now>>

----------------------------------------------------------------------------
(* Properties of round_quantity *)

(* Smallest quantity increment of the exchange: 10^-quantity_precision *)
QuantityStep(exchange) ==
    IF exchange = "binance_futures" THEN Pow10(QtyScale - 8) ELSE Pow10(QtyScale - 6)

(* Minimum notional of the exchange, in units of 10^-QtyScale USD *)
MinNotional(exchange) ==
    IF exchange = "binance_futures" THEN 5 * Pow10(QtyScale) ELSE Pow10(QtyScale)

(* C12: round_quantity returns the raw quantity truncated toward zero to the *)
(* exchange's precision, never more than the raw quantity, and returns it    *)
(* only if it is at least the minimum order quantity and, at the current     *)
(* price, at least the minimum notional; otherwise the call fails with       *)
(* InvalidOrderParametersError.                                              *)
C12_RoundQuantityTruncates ==
    \A c \in Callers :
        (call[c].op = "round_quantity" /\ pc[c] = "done") =>
            /\ outcome[c] \in {"ok", "InvalidOrderParametersError"}
            /\ outcome[c] = "ok" =>
                   /\ call[c].fq <= call[c].quantity
                   /\ call[c].fq % QuantityStep(call[c].exchange) = 0
                   /\ call[c].quantity - call[c].fq < QuantityStep(call[c].exchange)
                   /\ call[c].fq >= QuantityStep(call[c].exchange)
                   /\ call[c].fq * CurrentPrice(call[c].symbol) >= MinNotional(call[c].exchange)

----------------------------------------------------------------------------
(* Round trip of the symbol mapping *)

(* C13: for every symbol S the table of exchange E has an entry for,         *)
(* normalize_symbol(denormalize_symbol(normalize_symbol(S, E), E), E) is     *)
(* normalize_symbol(S, E), the table's entry, also when two internal symbols *)
(* map to the same exchange symbol.                                          *)
C13_MappingRoundTrip ==
    (/\ mapRes.stage = "renormalized"
     /\ mapRes.symbol \in DOMAIN mapRes.table[mapRes.exchange])
    => /\ mapRes.value = mapRes.table[mapRes.exchange][mapRes.symbol]
       /\ mapRes.again = mapRes.value

(* The round trip of a symbol whose exchange symbol is shared with another   *)
(* internal symbol, which the reverse lookup returned instead.               *)
C13_Witness ==
    /\ mapRes.stage = "renormalized"
    /\ mapRes.symbol \in DOMAIN mapRes.table[mapRes.exchange]
    /\ mapRes.back # mapRes.symbol
    /\ mapRes.back \in DOMAIN mapRes.table[mapRes.exchange]
    /\ mapRes.again = mapRes.value

----------------------------------------------------------------------------
(* Cancellation before admission *)

(* A cancelled call has sent nothing, was not admitted and holds no lock *)
CancelledCleanly ==
    \A c \in Callers :
        outcome[c] = "CancelledError" =>
            /\ sent[c] = 0
            /\ wire[c] = NoWire
            /\ call[c].admitted = 0
            /\ \A k \in Keys : locks[k] # c

(* Every step a call takes up to its admission, and its cancellation, leaves *)
(* every bucket, the admissions and the Adapters as they are.                *)
NotAdmittedLeavesBucket ==
    \A c \in Callers :
        (\/ pc[c] = "idle" /\ pc'[c] # "idle"
         \/ pc[c] = "acquire" /\ pc'[c] = "check"
         \/ outcome[c] # "CancelledError" /\ outcome'[c] = "CancelledError")
        => /\ rate_states' = rate_states
           /\ admitLog' = admitLog
           /\ adapterState' = adapterState
           /\ sent'[c] = 0

(* C14: a trading call cancelled while it waits in acquire, before the Rate  *)
(* Limiter admitted it, sends nothing to the exchange and leaves the bucket  *)
(* as if it had never been made.                                             *)
C14_CancelBeforeAdmission == []CancelledCleanly /\ [][NotAdmittedLeavesBucket]_vars

(* A trading call was cancelled while it held the lock of a full bucket *)
C14_Witness ==
    \E c \in Callers :
        /\ call[c].op \in TradingOps
        /\ outcome[c] = "CancelledError"
        /\ sent[c] = 0
        /\ Len(rate_states[Addressed(c)].requests) = Capacity(Addressed(c))
        /\ AdmittedBetween(Addressed(c), now - IntervalTicks + 1, now) = Capacity(Addressed(c))

----------------------------------------------------------------------------
(* Termination of acquire *)

(* C15: every acquire eventually returns, admitted or with RateLimitError,   *)
(* also while other callers keep acquiring on the same bucket.               *)
C15_AcquireReturns ==
    \A c \in Callers :
        (call[c].op = "acquire" /\ InAcquire(c))
            ~> (pc[c] = "done" /\ outcome[c] \in {"admitted", "RateLimitError"})

(* A caller waits for the lock of a full bucket that another caller holds    *)
(* while waiting for capacity.                                               *)
C15_Witness ==
    \E c1, c2 \in Callers :
        /\ c1 # c2
        /\ pc[c1] = "check" /\ pc[c2] = "acquire"
        /\ Addressed(c1) = Addressed(c2)
        /\ locks[Addressed(c1)] = c1
        /\ Len(Pruned(rate_states[Addressed(c1)].requests, Addressed(c1), now))
               = Capacity(Addressed(c1))

----------------------------------------------------------------------------
(* OrderResult *)

(* The OrderResult a finished trading operation returned *)
Returned(c) == pc[c] = "done" /\ outcome[c] = "ok" /\ call[c].op \in TradingOps

----------------------------------------------------------------------------
(* Operations that never raise *)

----------------------------------------------------------------------------
(* Credential resolution *)

(* The bundle stored for an exchange name *)
StoredBundle(name) == IF name \in DOMAIN creds THEN creds[name] ELSE EmptyMap

Present(bundle, key, len, hex) ==
    key \in DOMAIN bundle /\ bundle[key].len = len /\ (hex => bundle[key].hex)

(* A bundle with every required field of its exchange in the required form *)
WellFormed(name, bundle) ==
    CASE name = "binance_futures" ->
             Present(bundle, "api_key", 64, FALSE) /\ Present(bundle, "api_secret", 64, FALSE)
      [] name = "hyperliquid" ->
             /\ Present(bundle, "wallet_address", 42, TRUE)
             /\ Present(bundle, "main_wallet", 42, TRUE)
             /\ Present(bundle, "private_key", 66, TRUE)
      [] OTHER -> FALSE

----------------------------------------------------------------------------
(* The default exchange *)

(* A successful get made in the given way: by name, with the name omitted,   *)
(* or through the legacy accessor.                                           *)
GotVia(c, via) ==
    pc[c] = "done" /\ outcome[c] = "ok" /\ call[c].op = "get" /\ call[c].via = via

----------------------------------------------------------------------------
(* Control operations behind ALLOW_CONTROL_OPERATIONS *)

(* The request was made to the path, with or without one trailing slash *)
RequestTo(base) ==
    request.method # "none" /\ request.pathname.base = base /\ request.pathname.slashes <= 1

(* A request the claim calls a control operation: any method on the four     *)
(* control paths, a writing method on the strategy path.                     *)
ControlRequest ==
    \/ \E base \in {"/api/agent/start", "/api/agent/stop",
                    "/api/trading/history/reset", "/api/trading/history/sync"} :
           RequestTo(base)
    \/ /\ RequestTo("/api/trading/strategy")
       /\ request.method \in {"POST", "PUT", "PATCH", "DELETE"}

Rewritten == response.served = "/api/frontend-blocked"

Answered403 == response.status = 403 /\ response.error = "CONTROL_OPERATIONS_DISABLED"

(* The rewriting part of C21: without ALLOW_CONTROL_OPERATIONS = 'true'      *)
(* every control request is rewritten, GET on the strategy path passes, and  *)
(* with 'true' no control request is rewritten.                              *)
ControlRequestsRewritten ==
    /\ (ControlRequest /\ allowControl # "true") => Rewritten
    /\ (RequestTo("/api/trading/strategy") /\ request.method = "GET") =>
           response.served = "passed"
    /\ (ControlRequest /\ allowControl = "true") => response.served = "passed"

(* C21 as stated: the rewritten control request is answered 403 with error   *)
(* CONTROL_OPERATIONS_DISABLED whatever its method.                          *)
C21_ControlBlocked403AnyMethod ==
    /\ ControlRequestsRewritten
    /\ (ControlRequest /\ allowControl # "true") => Answered403

(* C21, amended: every control request is rewritten to /api/frontend-blocked *)
(* whatever its method when ALLOW_CONTROL_OPERATIONS is not 'true', and the  *)
(* route answers 403 with error CONTROL_OPERATIONS_DISABLED for the methods  *)
(* it handles: GET, POST, PUT, PATCH, DELETE, HEAD.                          *)
C21_ControlBlocked ==
    /\ ControlRequestsRewritten
    /\ (/\ ControlRequest
        /\ allowControl # "true"
        /\ request.method \in {"GET", "POST", "PUT", "PATCH", "DELETE", "HEAD"}) => Answered403
    /\ Answered403 => Rewritten

(* PATCH /api/trading/strategy/ answered 403 while the variable is 'TRUE' *)
C21_Witness ==
    /\ allowControl = "TRUE"
    /\ request.pathname = [base |-> "/api/trading/strategy", slashes |-> 1]
    /\ request.method = "PATCH"
    /\ Rewritten /\ Answered403

(* C24: a request to /api/agent/analyze, with or without one trailing slash, *)
(* is rewritten to /api/frontend-blocked and never passed on, for every      *)
(* method and every value of ALLOW_CONTROL_OPERATIONS.                       *)
C24_AnalyzeAlwaysBlocked ==
    RequestTo("/api/agent/analyze") => (Rewritten /\ response.served # "passed")

(* GET /api/agent/analyze/ rewritten while the variable is 'true' *)
C24_Witness ==
    /\ allowControl = "true"
    /\ request.pathname = [base |-> "/api/agent/analyze", slashes |-> 1]
    /\ request.method = "GET"
    /\ Rewritten

----------------------------------------------------------------------------
(* Custom prompts *)

AtMostOneActive ==
    \A prompt_type \in PromptTypes :
        Cardinality({id \in PromptIds : /\ custom_prompts[id].state = "row"
                                        /\ custom_prompts[id].prompt_type = prompt_type
                                        /\ custom_prompts[id].is_active}) <= 1

(* A successful activation leaves the prompt active and every other prompt  *)
(* of its type inactive, in one step.                                         *)
ActivationIsOneStep ==
    \A c \in Callers :
        (tx[c].pc = "activated" /\ tx'[c].result = "200") =>
            /\ custom_prompts'[tx[c].id].is_active
            /\ \A id \in PromptIds :
                   (/\ id # tx[c].id
                    /\ custom_prompts'[id].state = "row"
                    /\ custom_prompts'[id].prompt_type = custom_prompts'[tx[c].id].prompt_type)
                       => ~custom_prompts'[id].is_active

(* C22: after any sequence of create, activate, deactivate and delete, also  *)
(* with concurrent activations of different prompts of one type, at most one *)
(* prompt per prompt_type is active, and an activation deactivates the       *)
(* others of its type in the same step.                                      *)
C22_OneActivePromptPerType == []AtMostOneActive /\ [][ActivationIsOneStep]_vars

(* Two activations of different prompts of one type ran concurrently and     *)
(* both ended: one prompt is active.                                         *)
C22_Witness ==
    \E c1, c2 \in Callers :
        /\ c1 # c2
        /\ tx[c1].pc = "done" /\ tx[c2].pc = "done"
        /\ tx[c1].id # tx[c2].id
        /\ tx[c1].result = "200" /\ tx[c2].result = "500"
        /\ custom_prompts[tx[c1].id].is_active
        /\ custom_prompts[tx[c2].id].state = "row"
        /\ custom_prompts[tx[c2].id].prompt_type = custom_prompts[tx[c1].id].prompt_type

----------------------------------------------------------------------------
(* Atomic admission *)

(* Tokens left in a bucket *)
TokensLeft(k) == Capacity(k) - Len(Pruned(rate_states[k].requests, k, now))

(* Callers inside the check-and-record section of a bucket *)
InSection(k) == {c \in Callers : pc[c] \in {"check", "record"} /\ Addressed(c) = k}

(* No acquire can take a step *)
Quiescent ==
    \A c \in Callers :
        ~ENABLED AcquireEnter(c) /\ ~ENABLED CheckRateLimit(c) /\ ~ENABLED RecordRequest(c)

(* C23: concurrent acquires on one bucket check and take their token one at  *)
(* a time and no update is lost: every admission took one token, the token   *)
(* count is never negative, callers wait only at an empty bucket, so that of *)
(* k acquires against t < k tokens exactly t are admitted without waiting,   *)
(* and one Lock at most is created per key.                                  *)
C23_AtomicAdmission ==
    \A k \in Keys :
        /\ Cardinality(InSection(k)) <= 1
        /\ TokensLeft(k) >= 0
        /\ admitLog[k][now] = Len(rate_states[k].requests)
        /\ lockObjects[k] <= 1
        /\ (lockObjects[k] = 0) => (locks[k] = 0 /\ rate_states[k].requests = <<>>)
        /\ (Quiescent /\ \E c \in Callers : InAcquire(c) /\ Addressed(c) = k) =>
               (TokensLeft(k) = 0 /\ admitLog[k][now] = Capacity(k))

(* Of two acquires called together on a bucket with one token left, one is   *)
(* admitted and the other waits at the empty bucket.                         *)
C23_Witness ==
    \E c1, c2 \in Callers :
        /\ c1 # c2
        /\ Addressed(c1) = Addressed(c2)
        /\ pc[c1] = "done" /\ outcome[c1] = "admitted"
        /\ pc[c2] = "check" /\ ~ENABLED CheckRateLimit(c2)
        /\ TokensLeft(Addressed(c1)) = 0
        /\ lockObjects[Addressed(c1)] = 1

----------------------------------------------------------------------------
(* The decisions list of the dashboard *)

(* C25: the pages fetched having pairwise distinct ids, the decisions list   *)
(* holds no two entries with one id, whatever the interleaving of the        *)
(* initial load, the refreshes and the load-more completions.                *)
C25_NoDuplicateDecisions == Distinct(decisions)

(* A load-more settled while a refresh was in flight, and the list is longer *)
(* than one page.                                                            *)
C25_Witness ==
    /\ settled.op = "more"
    /\ refreshes > 0
    /\ Len(decisions) > DECISIONS_PAGE_SIZE

(* The entries of s with an id in ids, in the order of s *)
Keep(s, ids) == SelectSeq(s, LAMBDA d : d \in ids)

(* A refresh settles *)
RefreshSettles == refreshes' < refreshes

(* C27: a periodic refresh that finds the list non-empty removes no loaded   *)
(* decision: the new list is a fresh page followed by the previous entries   *)
(* whose ids are not in that page, in their order, and hasMoreDecisions is   *)
(* left as it was.                                                           *)
C27_RefreshKeepsLoaded ==
    [][(RefreshSettles /\ decisions # <<>>) =>
           /\ Ids(decisions) \subseteq Ids(decisions')
           /\ \E page \in Pages :
                  decisions' = page \o Keep(decisions, Ids(decisions) \ Ids(page))
           /\ hasMoreDecisions' = hasMoreDecisions]_vars

(* A refresh brought a newer decision to a list of a full page: the list is  *)
(* now longer than a page, the new decision first.                           *)
C27_Witness ==
    /\ settled = [op |-> "refresh", fate |-> "ok"]
    /\ Len(decisions) > DECISIONS_PAGE_SIZE
    /\ \A i \in 2..Len(decisions) : timestamp(decisions[1]) > timestamp(decisions[i])

----------------------------------------------------------------------------
(* Load-more and the offline indicator *)

(* handleLoadMoreDecisions issues its fetch; its request settles *)
LoadMoreIssued == loadMores' > loadMores
LoadMoreSettles == loadMores' < loadMores

(* C26: at most one load-more request is in flight; no fetch is issued while *)
(* isLoadingMoreDecisions is true or hasMoreDecisions is false, also when    *)
(* the handler is invoked again before the component has rendered again;     *)
(* isLoadingMoreDecisions is false again once the request has settled.       *)
C26_OneLoadMoreInFlight ==
    /\ [](loadMores <= 1)
    /\ [][LoadMoreIssued => (~isLoadingMoreDecisions /\ hasMoreDecisions)]_vars
    /\ [][LoadMoreSettles => ~isLoadingMoreDecisions']_vars

(* C28: a load-more that failed, by a network error or a non-2xx response,   *)
(* leaves decisions and hasMoreDecisions as they were; hasMoreDecisions      *)
(* becomes false only when a page fetched with success is shorter than       *)
(* DECISIONS_PAGE_SIZE.                                                      *)
C28_FailedLoadMoreChangesNothing ==
    /\ [][(LoadMoreSettles /\ settled'.fate # "ok") =>
              (decisions' = decisions /\ hasMoreDecisions' = hasMoreDecisions)]_vars
    /\ [][(hasMoreDecisions /\ ~hasMoreDecisions') => settled'.fate = "ok"]_vars

(* A loadData call settles *)
InitialSettles == initialLoad = "pending" /\ initialLoad' = "done"
LoadDataSettles == InitialSettles \/ RefreshSettles

(* C29: a load or refresh that found the backend unreachable ends with       *)
(* isOffline true and error the failure message; a load that succeeded ends  *)
(* with isOffline false and error null; loading is true during the initial   *)
(* load only and false once it has settled.                                  *)
C29_OfflineWhenUnreachable ==
    /\ [][(LoadDataSettles /\ settled'.fate = "network") =>
              (isOffline' /\ error' # "null")]_vars
    /\ [][(LoadDataSettles /\ settled'.fate = "ok") =>
              (~isOffline' /\ error' = "null")]_vars
    /\ [](loading => initialLoad # "done")
    /\ [][InitialSettles => ~loading']_vars

----------------------------------------------------------------------------
(* The API client *)

ArrayFetchers == {"fetchAccountData", "fetchDecisions", "fetchPositions"}

(* C30: fetchAccountData, fetchDecisions and fetchPositions never reject and *)
(* resolve to an empty array on a network failure or a non-2xx response;     *)
(* fetchStats then resolves to the all-zero record; apiRequest rejects with  *)
(* an ApiError on every non-2xx response, carrying the HTTP status and the   *)
(* server's message when the JSON body has a string message field, and on    *)
(* every network failure.                                                    *)
C30_FetchersNeverReject ==
    LET failed == FateOf(apiCall.reply) # "ok"
        out == apiCall.outcome
    IN  /\ apiCall.fn \in ArrayFetchers \cup {"fetchStats"} => out.state = "resolved"
        /\ (apiCall.fn \in ArrayFetchers /\ failed) => out.value = ArrayValue(<<>>)
        /\ (apiCall.fn = "fetchStats" /\ failed) => out.value = ZeroStats
        /\ (apiCall.fn = "apiRequest" /\ failed) =>
               /\ out.state = "rejected"
               /\ out.error.name = "ApiError"
        /\ (apiCall.fn = "apiRequest" /\ FateOf(apiCall.reply) = "http") =>
               /\ out.error.status = apiCall.reply.status
               /\ (apiCall.reply.body.kind = "object"
                      /\ apiCall.reply.body.message_type = "string") =>
                       out.error.message = apiCall.reply.body.message

(* fetchDecisions was answered 500 with a message and resolved to the empty  *)
(* array.                                                                    *)
C30_Witness ==
    /\ apiCall.fn = "fetchDecisions"
    /\ apiCall.reply.network
    /\ apiCall.reply.status = 500
    /\ apiCall.reply.body.message_type = "string"
    /\ apiCall.outcome = Resolved(ArrayValue(<<>>))

====
